---------------------------- MODULE Spec2Model ----------------------------
(***************************************************************************)
(* A model of the unit-checked flux pipeline of pySeaFlux (package         *)
(* seaflux): the validator check_array_bounds and its typed wrappers, the  *)
(* formula functions that call them, and flux_bulk.                        *)
(*                                                                         *)
(* Numbers.  A float is modelled by an exact number <<n, d, e>> standing   *)
(* for (n / d) * 10^e, or by NaN.  The additions, multiplications,         *)
(* divisions and comparisons of the code are computed exactly on these.    *)
(* The results of exp, log and fractional powers are irrational; they are  *)
(* carried as a sign ("neg", "zero", "pos") or "nan", computed from the    *)
(* exact arguments.  Arrays are sequences; a Python scalar is an array of  *)
(* one element (check_array_bounds builds its array with ndmin=1).         *)
(***************************************************************************)
EXTENDS Integers, Sequences, FiniteSets, TLC

VARIABLES fn, args, ret, pc

vars == <<fn, args, ret, pc>>

---------------------------------------------------------------------------
(* Exact numbers                                                           *)

Abs(x) == IF x < 0 THEN -x ELSE x

RECURSIVE GCD(_, _)
GCD(a, b) == IF b = 0 THEN a ELSE GCD(b, a % b)

RECURSIVE Pow10(_)
Pow10(k) == IF k = 0 THEN 1 ELSE 10 * Pow10(k - 1)

\* numpy.nan: the one value with denominator 0
NaN == <<0, 0, 0>>

IsNaN(x) == x[2] = 0

\* (n / d) * 10^e in reduced form: d > 0 is coprime to n and to 5, and n
\* is not a multiple of 10.  A number may have several reduced forms (1/2
\* and 5 * 10^-1); Eq compares values.
RECURSIVE Norm(_, _, _)
Norm(n, d, e) ==
    IF n = 0 THEN <<0, 1, 0>>
    ELSE IF d < 0 THEN Norm(-n, -d, e)
    ELSE IF n % 10 = 0 THEN Norm(n \div 10, d, e + 1)
    ELSE IF d % 10 = 0 THEN Norm(n, d \div 10, e - 1)
    ELSE IF d % 5 = 0 /\ n % 5 # 0 THEN Norm(n * 2, d \div 5, e - 1)
    ELSE LET g == GCD(Abs(n), d)
         IN  IF g = 1 THEN <<n, d, e>> ELSE Norm(n \div g, d \div g, e)

\* the decimal literal m * 10^e
Dec(m, e) == Norm(m, 1, e)

\* (n1 / d1) * (n2 / d2), cancelling across before multiplying
Ratio(n1, d1, n2, d2, e) ==
    LET g1 == GCD(Abs(n1), d2)
        g2 == GCD(Abs(n2), d1)
    IN  Norm((n1 \div g1) * (n2 \div g2), (d1 \div g2) * (d2 \div g1), e)

Mul(a, b) ==
    IF IsNaN(a) \/ IsNaN(b) THEN NaN
    ELSE Ratio(a[1], a[2], b[1], b[2], a[3] + b[3])

\* b is never zero on the inputs of this model
Div(a, b) ==
    IF IsNaN(a) \/ IsNaN(b) THEN NaN
    ELSE IF b[1] < 0 THEN Ratio(-a[1], a[2], b[2], -b[1], a[3] - b[3])
    ELSE Ratio(a[1], a[2], b[2], b[1], a[3] - b[3])

Add(a, b) ==
    IF IsNaN(a) \/ IsNaN(b) THEN NaN
    ELSE LET e == IF a[3] < b[3] THEN a[3] ELSE b[3]
         IN  Norm(a[1] * Pow10(a[3] - e) * b[2] + b[1] * Pow10(b[3] - e) * a[2],
                  a[2] * b[2], e)

Neg(a) == IF IsNaN(a) THEN NaN ELSE <<-a[1], a[2], a[3]>>

Sub(a, b) == Add(a, Neg(b))

\* x * 10^k < y and y * 10^m <= x for positive integers x, y, computed
\* without forming the product
ScaledLess(x, k, y) == k < 10 /\ x <= (y - 1) \div Pow10(k)

ScaledLeq(y, m, x) == m < 10 /\ y <= x \div Pow10(m)

\* x * 10^e1 < y * 10^e2 for positive integers x, y
LessPos(x, e1, y, e2) ==
    IF e1 >= e2 THEN ScaledLess(x, e1 - e2, y)
    ELSE ~ ScaledLeq(y, e2 - e1, x)

\* a < b as IEEE floats compare: false as soon as one side is NaN
Lt(a, b) ==
    IF IsNaN(a) \/ IsNaN(b) THEN FALSE
    ELSE LET x == a[1] * b[2]
             y == b[1] * a[2]
         IN  IF x = 0 THEN y > 0
             ELSE IF y = 0 THEN x < 0
             ELSE IF x < 0 /\ y > 0 THEN TRUE
             ELSE IF x > 0 /\ y < 0 THEN FALSE
             ELSE IF x > 0 THEN LessPos(x, a[3], y, b[3])
             ELSE LessPos(-y, b[3], -x, a[3])

Gt(a, b) == Lt(b, a)

\* a == b as IEEE floats compare
Eq(a, b) == ~ IsNaN(a) /\ ~ IsNaN(b) /\ ~ Lt(a, b) /\ ~ Lt(b, a)

\* the sign of a number: "nan", "neg", "zero" or "pos"
SignOf(a) ==
    IF IsNaN(a) THEN "nan"
    ELSE IF a[1] < 0 THEN "neg"
    ELSE IF a[1] = 0 THEN "zero"
    ELSE "pos"

---------------------------------------------------------------------------
(* seaflux/check_units.py                                                  *)

\* the longest array handed to check_array_bounds on its own
MaxLen == 4

\* the values of those arrays: NaN, the two limits, and numbers below,
\* between and above them
ArrVals == {NaN, Dec(-3, 0), Dec(-2, 0), Dec(0, 0), Dec(2, 0), Dec(3, 0)}

\* the limits of tests/test_checks.py
TestLims == <<Dec(-2, 0), Dec(2, 0)>>

\* the four documented actions, and one that is none of them
Actions == {"raise", "warn", "quiet", "ignore", "mask"}

Arrays(vals, lens) == UNION {[1..n -> vals] : n \in lens}

\* the number of True elements of a boolean array: mask.sum()
Count(mask) == Cardinality({i \in DOMAIN mask : mask[i]})

\* outside = (arr < lims[0]) | (arr > lims[1])
OutsideInclusive(arr, lims) ==
    [i \in DOMAIN arr |-> \/ Lt(arr[i], lims[1]) \/ arr[i] = lims[1]
                          \/ Gt(arr[i], lims[2]) \/ arr[i] = lims[2]]

Outside(arr, lims) ==
    [i \in DOMAIN arr |-> Lt(arr[i], lims[1]) \/ Gt(arr[i], lims[2])]

\* arr[outside] = nan
Masked(arr, outside) ==
    [i \in DOMAIN arr |-> IF outside[i] THEN NaN ELSE arr[i]]

\* what a call does: the exception it raises ("none" when it returns), the
\* array it returns, and whether it emitted a warning
Returns(arr, warned) == [err |-> "none", arr |-> arr, warned |-> warned]

Raises(exc) == [err |-> exc, arr |-> <<>>, warned |-> FALSE]

CheckOutsideSingleton(arr, outside, non_nan_count, action) ==
    IF Len(arr) <= 1 THEN Returns(arr, FALSE)
    ELSE IF 2 * Count(outside) > non_nan_count THEN Raises("UnitError")
    ELSE IF Count(outside) > 0 /\ action = "raise" THEN Raises("UnitError")
    ELSE IF action = "warn"
         THEN Returns(Masked(arr, outside), Count(outside) > 0)
    ELSE IF action = "quiet" THEN Returns(Masked(arr, outside), FALSE)
    ELSE IF action = "ignore" THEN Returns(arr, FALSE)
    ELSE Raises("Exception")

\* the branches of check_array_bounds, once the mask of the elements
\* outside the limits and the number of elements that are not nan are known
CheckOutside(arr, outside, non_nan_count, action) ==
    IF Len(arr) <= 2 THEN Returns(arr, FALSE)
    \* half_outside = outside.sum() > non_nan_count * 0.5
    ELSE IF 2 * Count(outside) > non_nan_count THEN Raises("UnitError")
    ELSE IF Count(outside) > 0 /\ action = "raise" THEN Raises("UnitError")
    ELSE IF action = "warn"
         THEN Returns(Masked(arr, outside), Count(outside) > 0)
    ELSE IF action = "quiet" THEN Returns(Masked(arr, outside), FALSE)
    ELSE IF action = "ignore" THEN Returns(arr, FALSE)
    ELSE Raises("Exception")

CheckArrayBoundsSizeDenominator(arr, lims, action) ==
    CheckOutside(arr, Outside(arr, lims), Len(arr), action)

CheckArrayBoundsUnchecked(arr, lims, action) == Returns(arr, FALSE)

check_array_bounds(arr, lims, action) ==
    CheckOutside(arr, Outside(arr, lims),
                 Len(arr) - Count([i \in DOMAIN arr |-> IsNaN(arr[i])]),
                 action)

Ok(r) == r.err = "none"

\* the exception of the first of a sequence of calls that raises
FirstErr(rs) ==
    IF \A i \in DOMAIN rs : Ok(rs[i]) THEN "none"
    ELSE LET i == CHOOSE k \in DOMAIN rs :
                      ~ Ok(rs[k]) /\ \A j \in 1..(k - 1) : Ok(rs[j])
         IN  rs[i].err

AnyWarned(rs) == \E i \in DOMAIN rs : rs[i].warned

\* what a function returns after the calls rs: the exception of the first
\* that raised, or else the array arr
Result(rs, arr) ==
    IF FirstErr(rs) # "none" THEN Raises(FirstErr(rs))
    ELSE Returns(arr, AnyWarned(rs))

\* the typed validators: each fixes its limits and the action "warn"
TempLims == <<Dec(270, 0), Dec(3185, -1)>>

PresLims == <<Dec(5, -1), Dec(15, -1)>>

CO2Lims == <<Dec(5, -6), Dec(8, -2)>>

SaltLims == <<Dec(0, 0), Dec(50, 0)>>

WindLims == <<Dec(0, 0), Dec(50, 0)>>

temp_K(arr) == check_array_bounds(arr, TempLims, "warn")

pres_atm(arr) == check_array_bounds(arr, PresLims, "warn")

CO2_mol(arr) == check_array_bounds(arr, CO2Lims, "warn")

salt(arr) == check_array_bounds(arr, SaltLims, "warn")

wind_ms(arr) == check_array_bounds(arr, WindLims, "warn")

---------------------------------------------------------------------------
(* Signs: the values of expressions built on exp, log and fractional       *)
(* powers.  "unknown" is a sign the exact arguments do not determine.      *)

SMul(a, b) ==
    IF a = "nan" \/ b = "nan" THEN "nan"
    ELSE IF a = "unknown" \/ b = "unknown" THEN "unknown"
    ELSE IF a = "zero" \/ b = "zero" THEN "zero"
    ELSE IF a = b THEN "pos"
    ELSE "neg"

SAdd(a, b) ==
    IF a = "nan" \/ b = "nan" THEN "nan"
    ELSE IF a = "unknown" \/ b = "unknown" THEN "unknown"
    ELSE IF a = "zero" THEN b
    ELSE IF b = "zero" \/ a = b THEN a
    ELSE "unknown"

\* numpy.exp(x): positive for every number x, nan for nan
Exp(x) == IF x = "nan" THEN "nan" ELSE "pos"

\* x ** 0.5 and x ** (-2.0 / 3.0) for a ratio x of the sign s with a
\* nonzero numerator: nan for a negative base, infinite for a zero divisor
PowFrac(s) ==
    IF s = "nan" \/ s = "neg" THEN "nan"
    ELSE IF s = "pos" THEN "pos"
    ELSE "unknown"

\* "nan" if one of the numbers is NaN, and otherwise "pos": the sign of a
\* placeholder for an expression that only has to be a number
Finite(xs) == IF \E i \in DOMAIN xs : IsNaN(xs[i]) THEN "nan" ELSE "pos"

---------------------------------------------------------------------------
(* seaflux/gas_transfer_velocity.py                                        *)

\* temp + 273.15, elementwise
K27315 == Dec(27315, -2)

ToKelvin(arr) == [i \in DOMAIN arr |-> Add(arr[i], K27315)]

\* a temperature as a whole number of hundredths of a degree (the
\* temperatures of the model have at most two decimals)
Hundredths(T) == (T[1] * Pow10(T[3] + 2)) \div T[2]

\* Sc = a + b * T + c * T ** 2 + d * T ** 3 + e * T ** 4, evaluated in
\* fixed point by Horner's rule for |T| <= 60; the result is within 0.1 of
\* the polynomial and is given with four decimals
SchmidtPolynomialNoOffset(T) ==
    IF IsNaN(T) THEN NaN
    ELSE LET t  == Hundredths(T)
             h1 == -923070 + (7555 * t) \div 100
             h2 == 4735300 + ((h1 \div 10) * t) \div 100
             h3 == -1362500 + ((h2 \div 100) * t) \div 100
             h4 == ((h3 \div 10) * t) \div 10
         IN  Dec(h4, -4)

SchmidtPolynomial(T) ==
    IF IsNaN(T) THEN NaN
    ELSE LET t  == Hundredths(T)
             h1 == -923070 + (7555 * t) \div 100
             h2 == 4735300 + ((h1 \div 10) * t) \div 100
             h3 == -1362500 + ((h2 \div 100) * t) \div 100
             h4 == 21168000 + ((h3 \div 10) * t) \div 10
         IN  Dec(h4, -4)

\* the result of check.temp_K is dropped: T = temp_C
schmidt_number(temp_C) ==
    Result(<<temp_K(ToKelvin(temp_C))>>,
           [i \in DOMAIN temp_C |-> SchmidtPolynomial(temp_C[i])])

\* (ref / Sc) ** 0.5 and (Sc / ref) ** (-2.0 / 3.0)
SchmidtFactor(Sc) == PowFrac(SignOf(Sc))

Cube(U) == Mul(U, Mul(U, U))

\* the wind terms of the parameterizations
\* the masks of k_Li86: i1 = U <= 3.6, i2 = (U > 3.6) & (U < 13.0),
\* i3 = U >= 13.0
Li86SmoothExclusive(U) == Lt(U, Dec(36, -1))

Li86Smooth(U) == ~ IsNaN(U) /\ ~ Gt(U, Dec(36, -1))

Li86TransitionalInclusive(U) ==
    ~ IsNaN(U) /\ ~ Lt(U, Dec(36, -1)) /\ Lt(U, Dec(13, 0))

Li86Transitional(U) == Gt(U, Dec(36, -1)) /\ Lt(U, Dec(13, 0))

Li86Rough(U) == ~ IsNaN(U) /\ ~ Lt(U, Dec(13, 0))

\* the wind terms of its three formulas
Li86SmoothTerm(U) == Mul(Dec(17, -2), U)

Li86TransitionalTermRoughOffset(U) == Mul(Sub(U, Dec(84, -1)), Dec(28, -1))

Li86TransitionalTerm(U) == Mul(Sub(U, Dec(34, -1)), Dec(28, -1))

Li86RoughTerm(U) == Mul(Sub(U, Dec(84, -1)), Dec(59, -1))

\* the regimes whose masked assignment writes the element
Li86Regimes(U) ==
    (IF Li86Smooth(U) THEN {"smooth"} ELSE {})
    \cup (IF Li86Transitional(U) THEN {"transitional"} ELSE {})
    \cup (IF Li86Rough(U) THEN {"rough"} ELSE {})

\* k = zeros_like(temp_C), then k[i1] = ..., k[i2] = ..., k[i3] = ...: the
\* last assignment that writes the element stays
WindLi86(U) ==
    IF Li86Rough(U) THEN Li86RoughTerm(U)
    ELSE IF Li86Transitional(U) THEN Li86TransitionalTerm(U)
    ELSE IF Li86Smooth(U) THEN Li86SmoothTerm(U)
    ELSE Dec(0, 0)

WindWa92(U2) == Mul(Dec(31, -2), U2)

WindWa99(U) == Mul(Dec(283, -4), Cube(U))

WindNi00Minus(U) ==
    Sub(Mul(Dec(333, -3), U), Mul(Dec(222, -3), Mul(U, U)))

WindNi00(U) == Add(Mul(Dec(333, -3), U), Mul(Dec(222, -3), Mul(U, U)))

WindMc01(U) == Mul(Dec(26, -3), Cube(U))

WindHo06(U2) == Mul(Dec(266, -3), U2)

WindSw07(U2) == Mul(Dec(27, -2), U2)

WindWa09(U) ==
    Add(Add(Dec(3, 0), Mul(Dec(1, -1), U)),
        Add(Mul(Dec(64, -3), Mul(U, U)), Mul(Dec(11, -3), Cube(U))))

WindWa14(U2) == Mul(Dec(251, -3), U2)

KwFuncs == {"k_Li86", "k_Wa92", "k_Wa99", "k_Ni00", "k_Mc01",
            "k_Ho06", "k_Sw07", "k_Wa09", "k_Wa14"}

\* the functions that call check.wind_ms on their first argument
ChecksWind == {"k_Li86", "k_Wa99", "k_Ni00", "k_Mc01", "k_Wa09"}

\* one element of k, from the wind U (or second moment) and Sc
KwElement(name, U, Sc) ==
    LET F == SchmidtFactor(Sc)
    IN  CASE name = "k_Li86" ->
                \* k = zeros_like(temp_C); k[i1] = ..., k[i2] = ..., k[i3] = ...
                IF IsNaN(U) THEN "zero" ELSE SMul(SignOf(WindLi86(U)), F)
          [] name = "k_Wa92" -> SMul(SignOf(WindWa92(U)), F)
          [] name = "k_Wa99" -> SMul(SignOf(WindWa99(U)), F)
          [] name = "k_Ni00" -> SMul(SignOf(WindNi00(U)), F)
          [] name = "k_Mc01" -> SAdd("pos", SMul(SignOf(WindMc01(U)), F))
          [] name = "k_Ho06" -> SMul(SignOf(WindHo06(U)), F)
          [] name = "k_Sw07" -> SMul(SignOf(WindSw07(U)), F)
          [] name = "k_Wa09" -> SMul(SignOf(WindWa09(U)), F)
          [] name = "k_Wa14" -> SMul(SignOf(WindWa14(U)), F)

\* k_Li86 ... k_Wa14: check.temp_K(T + 273.15), check.wind_ms(U) where the
\* function has one, Sc = schmidt_number(temp_C), then the formula on the
\* function's own arguments; the results of the two checks are dropped
KwChecks(name, wind, temp_C) ==
    <<temp_K(ToKelvin(temp_C)),
      IF name \in ChecksWind THEN wind_ms(wind) ELSE Returns(wind, FALSE),
      schmidt_number(temp_C)>>

\* the wind term of the formula of each function
KwTerm(name, U) ==
    CASE name = "k_Li86" -> WindLi86(U)
      [] name = "k_Wa92" -> WindWa92(U)
      [] name = "k_Wa99" -> WindWa99(U)
      [] name = "k_Ni00" -> WindNi00(U)
      [] name = "k_Mc01" -> WindMc01(U)
      [] name = "k_Ho06" -> WindHo06(U)
      [] name = "k_Sw07" -> WindSw07(U)
      [] name = "k_Wa09" -> WindWa09(U)
      [] name = "k_Wa14" -> WindWa14(U)

\* the formulas that write an element: the regimes of k_Li86, and the one
\* formula of the other functions
KwRegimes(name, U) ==
    IF name = "k_Li86" THEN Li86Regimes(U) ELSE {"formula"}

\* the result also records, for each element, the wind term and the
\* formulas that wrote it
KwChecked(name, wind, rs) ==
    IF FirstErr(rs) # "none" THEN Raises(FirstErr(rs))
    ELSE [err     |-> "none",
          arr     |-> [i \in DOMAIN wind |->
                          KwElement(name, wind[i], rs[3].arr[i])],
          warned  |-> AnyWarned(rs),
          term    |-> [i \in DOMAIN wind |-> KwTerm(name, wind[i])],
          regimes |-> [i \in DOMAIN wind |-> KwRegimes(name, wind[i])]]

Kw(name, wind, temp_C) == KwChecked(name, wind, KwChecks(name, wind, temp_C))

\* the largest whole number whose square is at most n, between lo and hi
RECURSIVE SqrtBetween(_, _, _)
SqrtBetween(n, lo, hi) ==
    IF hi - lo <= 1 THEN lo
    ELSE IF ((lo + hi) \div 2) * ((lo + hi) \div 2) <= n
         THEN SqrtBetween(n, (lo + hi) \div 2, hi)
    ELSE SqrtBetween(n, lo, (lo + hi) \div 2)

\* a positive number rounded to the nearest whole number
Nearest(x) ==
    IF x[3] >= 0 THEN (x[1] * Pow10(x[3])) \div x[2]
    ELSE (2 * x[1] + x[2] * Pow10(-x[3])) \div (2 * x[2] * Pow10(-x[3]))

\* (Sc / 660) ** -0.5 = sqrt(660 / Sc), to three decimals from Sc rounded to
\* a whole number; nan for a missing Sc and for the negative base of a
\* fractional power
SchmidtTerm660(Sc) ==
    IF IsNaN(Sc) \/ Sc[1] <= 0 \/ Nearest(Sc) = 0 THEN NaN
    ELSE Dec(SqrtBetween((660 * 1000000) \div Nearest(Sc), 0, 40000), -3)

\* numpy.nansum: the sum of the elements that are not nan
RECURSIVE nansum(_)
nansum(xs) ==
    IF xs = <<>> THEN Dec(0, 0)
    ELSE IF IsNaN(Head(xs)) THEN nansum(Tail(xs))
    ELSE Add(Head(xs), nansum(Tail(xs)))

\* numpy.nan_to_num, elementwise
nan_to_num(xs) == [i \in DOMAIN xs |-> IF IsNaN(xs[i]) THEN Dec(0, 0) ELSE xs[i]]

\* n * 10^m = q * d + r with 0 <= r < d, as <<q, r>>, for n >= 0, d > 0
RECURSIVE ScaledQuotient(_, _, _)
ScaledQuotient(n, d, m) ==
    IF m = 0 THEN <<n \div d, n % d>>
    ELSE LET p == ScaledQuotient(n, d, m - 1)
         IN  <<p[1] * 10 + (p[2] * 10) \div d, (p[2] * 10) % d>>

\* the quotient <<q, r>> of a division by d, rounded half to even
HalfEven(p, d) ==
    IF 2 * p[2] > d THEN p[1] + 1
    ELSE IF 2 * p[2] < d THEN p[1]
    ELSE IF p[1] % 2 = 0 THEN p[1]
    ELSE p[1] + 1

\* numpy.around(x, 4) for x >= 0
around4(x) ==
    IF IsNaN(x) THEN NaN
    ELSE IF x[3] + 4 >= 0
         THEN Dec(HalfEven(ScaledQuotient(x[1], x[2], x[3] + 4), x[2]), -4)
    ELSE Dec(HalfEven(ScaledQuotient(x[1], x[2] * Pow10(-(x[3] + 4)), 0),
                      x[2] * Pow10(-(x[3] + 4))), -4)

\* a / b as floats divide, where the only division by zero of the model's
\* inputs is 0 / 0 = nan
FloatDiv(a, b) ==
    IF IsNaN(a) \/ IsNaN(b) \/ b[1] = 0 THEN NaN ELSE Div(a, b)

\* weight = nan_to_num(1 - ice); weight[mask] = 0
ScaledAlphaWeightUnmasked(U2, Sc, ice) ==
    nan_to_num([i \in DOMAIN ice |-> Sub(Dec(1, 0), ice[i])])

ScaledAlphaWeight(U2, Sc, ice) ==
    [i \in DOMAIN ice |->
        IF IsNaN(U2[i]) \/ IsNaN(Sc[i]) THEN Dec(0, 0)
        ELSE nan_to_num([j \in DOMAIN ice |-> Sub(Dec(1, 0), ice[j])])[i]]

\* a = around(scaling / (nansum(U2 * Sc * weight) / nansum(weight)), 4)
ScaledAlphaOfWeight(U2, Sc, weight, scaling) ==
    around4(FloatDiv(scaling,
        FloatDiv(nansum([i \in DOMAIN U2 |-> Mul(Mul(U2[i], Sc[i]), weight[i])]),
                 nansum(weight))))

calculate_scaled_alpha(U2, Sc, ice, scaling) ==
    ScaledAlphaOfWeight(U2, Sc, ScaledAlphaWeight(U2, Sc, ice), scaling)

Square(xs) == [i \in DOMAIN xs |-> Mul(xs[i], xs[i])]

\* U2 = Uavg ** 2 + Ustd ** 2
SecondMoment(Uavg, Ustd) ==
    [i \in DOMAIN Uavg |-> Add(Square(Uavg)[i], Square(Ustd)[i])]

\* Sc660 = (Sc / 660) ** -0.5
Sc660Of(Sc) == [i \in DOMAIN Sc |-> SchmidtTerm660(Sc[i])]

\* k = a * Uavg2 * Sc660; the result also records a
KwScaledResult(a, Uavg2, Sc660, warned) ==
    [err    |-> "none",
     arr    |-> [i \in DOMAIN Uavg2 |-> Mul(Mul(a, Uavg2[i]), Sc660[i])],
     warned |-> warned,
     alpha  |-> a]

\* kw_scaled after Sc = schmidt_number(T), the only call of it that
\* validates an input
KwScaledChecked(Uavg, Ustd, Sc, ice, scaling) ==
    IF ~ Ok(Sc) THEN Raises(Sc.err)
    ELSE KwScaledResult(
             calculate_scaled_alpha(SecondMoment(Uavg, Ustd), Sc660Of(Sc.arr),
                                    ice, scaling),
             Square(Uavg), Sc660Of(Sc.arr), Sc.warned)

kw_scaled(wind_speed, wind_grid_stdev, temp_C, ice_frac, scaling) ==
    KwScaledChecked(wind_speed, wind_grid_stdev, schmidt_number(temp_C),
                    ice_frac, scaling)

---------------------------------------------------------------------------
(* seaflux/auxiliary_equations.py, seaflux/fco2_pco2_conversion.py         *)

\* the argument None
None == <<>>

\* exp(0.0433 * (To - Ti) - 4.35e-05 * (To ** 2 - Ti ** 2)); the model calls
\* it with temp_out = temp_in only, where it is exp(0.0) = 1.0 (or nan)
temperature_correction(temp_in, temp_out) ==
    [i \in DOMAIN temp_in |->
        IF IsNaN(temp_in[i]) \/ IsNaN(temp_out[i]) THEN NaN ELSE Dec(1, 0)]

\* ve = exp(P * (B + 2 * x2 * d) / (R * T)) for one element; C is None or
\* the element of xCO2_mol
VirialElement(T, P, C) ==
    IF IsNaN(T) \/ IsNaN(P) \/ (C # None /\ IsNaN(C)) THEN "nan"
    ELSE IF T[1] = 0 THEN "unknown"
    ELSE Exp("pos")

\* virial_coeff: T = check.temp_K(temp), P = check.pres_atm(pres), and the
\* three checks that follow, which only raise or warn
VirialChecks(T, P, xCO2_mol) ==
    <<T, P,
      IF Ok(T) THEN temp_K(T.arr) ELSE T,
      IF Ok(P) THEN pres_atm(P.arr) ELSE P,
      IF xCO2_mol # None THEN CO2_mol(xCO2_mol) ELSE Returns(None, FALSE)>>

\* the expansion on the validators' results rs[1] and rs[2].  The result
\* also records the T and P the expansion is evaluated at.
VirialChecked(rs, xCO2_mol) ==
    IF FirstErr(rs) # "none" THEN Raises(FirstErr(rs))
    ELSE [err    |-> "none",
          arr    |-> [i \in DOMAIN rs[1].arr |->
                         VirialElement(rs[1].arr[i], rs[2].arr[i],
                             IF xCO2_mol = None THEN None ELSE xCO2_mol[i])],
          warned |-> AnyWarned(rs),
          T      |-> rs[1].arr,
          P      |-> rs[2].arr]

virial_coeff(temp, pres, xCO2_mol) ==
    VirialChecked(VirialChecks(temp_K(temp), pres_atm(pres), xCO2_mol),
                  xCO2_mol)

MICRO == Dec(1, -6)

HPA_PER_ATM == Dec(101325, -2)

ToAtm(arr) == [i \in DOMAIN arr |-> Mul(arr[i], MICRO)]

HPaToAtm(arr) == [i \in DOMAIN arr |-> Div(arr[i], HPA_PER_ATM)]

\* the conversions and checks both functions start with, tempEQ_C = None:
\* CO2 * 1e-6, Tsw = Teq = tempSW_C + 273.15, Peq = pres_hPa / 1013.25
ConversionChecks(CO2_uatm, tempSW_C, pres_hPa) ==
    <<CO2_mol(ToAtm(CO2_uatm)),
      temp_K(ToKelvin(tempSW_C)),
      temp_K(ToKelvin(tempSW_C)),
      pres_atm(HPaToAtm(pres_hPa))>>

\* xCO2eq = CO2sw * dT / Peq
MolarFraction(CO2sw, dT, Peq) ==
    [i \in DOMAIN CO2sw |-> Div(Mul(CO2sw[i], dT[i]), Peq[i])]

\* CO2sw * ve (and CO2sw / ve) * 1e6: the elements of the result are signs.
\* The result also records CO2sw and the T and P of the virial expansion.
ConversionResult(rs, ve) ==
    IF FirstErr(rs) # "none" THEN Raises(FirstErr(rs))
    ELSE IF ~ Ok(ve) THEN Raises(ve.err)
    ELSE [err    |-> "none",
          arr    |-> [i \in DOMAIN rs[1].arr |->
                         SMul(SignOf(rs[1].arr[i]), ve.arr[i])],
          warned |-> AnyWarned(rs) \/ ve.warned,
          p      |-> rs[1].arr,
          T      |-> ve.T,
          P      |-> ve.P]

\* ve = virial_coeff(Tsw, Peq, xCO2eq) on the checked values rs
ConversionVirial(rs, dT) ==
    virial_coeff(rs[2].arr, rs[4].arr,
                 MolarFraction(rs[1].arr, dT, rs[4].arr))

\* pCO2_to_fCO2 with tempEQ_C = None: dT = temperature_correction(Tsw, Teq)
PCO2Checked(rs) ==
    ConversionResult(rs,
        ConversionVirial(rs, temperature_correction(rs[2].arr, rs[3].arr)))

pCO2_to_fCO2(pCO2SW_uatm, tempSW_C, pres_hPa) ==
    PCO2Checked(ConversionChecks(pCO2SW_uatm, tempSW_C, pres_hPa))

\* fCO2_to_pCO2 with tempEQ_C = None: dT = 1.0
FCO2Checked(rs) ==
    ConversionResult(rs,
        ConversionVirial(rs, [i \in DOMAIN rs[1].arr |-> Dec(1, 0)]))

fCO2_to_pCO2(fCO2SW_uatm, tempSW_C, pres_hPa) ==
    FCO2Checked(ConversionChecks(fCO2SW_uatm, tempSW_C, pres_hPa))

---------------------------------------------------------------------------
(* seaflux/fco2_pco2_conversion.py in fixed point, for scalar calls with   *)
(* the default pressure (Peq = 1 atm) and tempEQ_C = None.  t is the       *)
(* temperature in hundredths of a kelvin and f a whole number of uatm.     *)

\* B = -1636.75 + 12.0408 * T - 0.0327957 * T ** 2 + 3.16528e-5 * T ** 3
\* by Horner's rule, in 1e-4 cm3/mol
VirialB(t) ==
    LET h1 == (31653 * t) \div 100 - 32795700
        h2 == ((h1 \div 1000) * t) \div 100 + 12040800
    IN  ((h2 \div 100) * t) \div 100 - 16367500

\* d = 57.7 - 0.118 * T, in 1e-4 cm3/mol
VirialD(t) == 577000 - (118 * t) \div 10

\* R * T with R = 82.057, in 1e-4 cm3 atm/mol
GasConstantT(t) == 8206 * t

\* - log(ve) = - P * (B + 2 * x2 * d) / (R * T) in 1e-6, with P = 1 and
\* x2 = (1 - C) ** 2 = 1 - 2 * C up to C ** 2 <= 1e-6, C = x uatm
VirialLog(t, x) ==
    ((- (VirialB(t) + 2 * (VirialD(t) - (VirialD(t) * 2 * x) \div 1000000)))
        * 1000) \div (GasConstantT(t) \div 1000)

\* exp(E) - 1 = E + E ** 2 / 2 up to E ** 3 / 6, E in 1e-6
ExpM1(E) == E + (E * E) \div 2000000

\* fCO2_to_pCO2(f, T) - f in 1e-6 uatm: xCO2eq = fCO2sw * 1.0 / Peq and
\* pCO2SW = fCO2sw / virial_coeff(Tsw, Peq, xCO2eq)
PartialExcess(f, t) == f * ExpM1(VirialLog(t, f))

\* log(ve(f)) - log(ve(p)) in 1e-12 for p = f + excess: the two expansions
\* differ in x2 only, by 2 * d * ((1 - f) ** 2 - (1 - p) ** 2) / (R * T)
\* = 2 * d * (p - f) * (2 - p - f) / (R * T)
VirialLogShift(t, f, prod) ==
    ((4 * prod - ((prod \div 1000) * (4 * f + 2)) \div 1000) * 10)
        \div (GasConstantT(t) \div 10000)

\* pCO2_to_fCO2(p, T) - f in 1e-12 uatm for p = f / ve(f) = f + excess:
\* xCO2eq = pCO2sw * dT / Peq with dT = exp(0.0), and fCO2sw =
\* pCO2sw * virial_coeff(Tsw, Peq, xCO2eq) = f * ve(p) / ve(f)
\* = f * exp(- shift) = f - f * shift up to shift ** 2
FugacityShift(f, t, excess) ==
    - (f * VirialLogShift(t, f, (excess \div 1000) * (VirialD(t) \div 100)))

---------------------------------------------------------------------------
(* The equilibrator temperature of fCO2_to_pCO2, in its two versions:      *)
(* seaflux/fco2_pco2_conversion.py and seaflux/core.py.                    *)

ConversionModules == {"fco2_pco2_conversion", "core"}

\* the local variable tempEQ_was_None after "if tempEQ_C is None:
\* tempEQ_was_None = True; tempEQ_C = tempSW_C"; only
\* fco2_pco2_conversion.py has the branch "else: tempEQ_was_None = False"
TempEQWasNone(module, tempEQ_C) ==
    IF tempEQ_C = None THEN "True"
    ELSE IF module = "core" THEN "unbound"
    ELSE "False"

\* tempEQ_C after the same statement
EquilibratorTemperature(tempSW_C, tempEQ_C) ==
    IF tempEQ_C = None THEN tempSW_C ELSE tempEQ_C

\* "if tempEQ_was_None: dT = 1.0; else: dT = temperature_correction(Tsw,
\* Teq)": the factor is recorded as the expression that computes it;
\* reading a local variable that was never assigned raises
TemperatureFactor(was_none, Tsw, Teq) ==
    IF was_none = "unbound"
    THEN [err |-> "UnboundLocalError", arr |-> <<>>, warned |-> FALSE]
    ELSE [err |-> "none", arr |-> <<>>, warned |-> FALSE,
          Teq |-> Teq,
          dT  |-> IF was_none = "True" THEN <<"1.0">>
                  ELSE <<"temperature_correction", Tsw, Teq>>]

\* fCO2_to_pCO2 of the module on scalars inside the limits of its checks,
\* up to the assignment of dT; what follows it does not raise
EquilibratorFactor(module, tempSW_C, tempEQ_C) ==
    TemperatureFactor(TempEQWasNone(module, tempEQ_C),
                      Add(tempSW_C, K27315),
                      Add(EquilibratorTemperature(tempSW_C, tempEQ_C), K27315))

---------------------------------------------------------------------------
(* seaflux/vapour_pressure.py, seaflux/solubility.py                       *)

\* pH2O = exp(24.4543 - 67.4509 * (100 / T) - 4.8489 * log(T / 100)
\* - 0.000544 * S) for one element
VapourPressureElement(T, S) ==
    IF IsNaN(T) \/ IsNaN(S) THEN "nan"
    ELSE IF ~ Gt(T, Dec(0, 0)) THEN "unknown"
    ELSE Exp("pos")

\* the formula on the validators' results rs = <<T, S>>
Weiss1980Checked(rs) ==
    Result(rs, [i \in DOMAIN rs[1].arr |->
                   VapourPressureElement(rs[1].arr[i], rs[2].arr[i])])

weiss1980(sal, temp) == Weiss1980Checked(<<temp_K(temp), salt(sal)>>)

\* pH2O is below 0.2 atm up to 333.15 K (0.1965 atm at 333.15 K, S = 0)
PH2OMax == Dec(2, -1)

PH2OMaxTemp == Dec(33315, -2)

\* the sign of K0 / (P - pH2O) for one element
SolubilityElement(S, T, P, pH2O) ==
    IF IsNaN(S) \/ IsNaN(T) \/ IsNaN(P) \/ pH2O = "nan" THEN "nan"
    ELSE IF ~ Gt(T, Dec(0, 0)) \/ Gt(T, PH2OMaxTemp) \/ pH2O # "pos"
         THEN "unknown"
    ELSE IF ~ Lt(P, PH2OMax) THEN "pos"
    ELSE IF ~ Gt(P, Dec(0, 0)) THEN "neg"
    ELSE "unknown"

\* K0 / (P - pH2O) on the validators' results rs = <<T, S, P>>
SolubilityResult(rs, pH2O) ==
    IF FirstErr(rs) # "none" THEN Raises(FirstErr(rs))
    ELSE IF ~ Ok(pH2O) THEN Raises(pH2O.err)
    ELSE Returns([i \in DOMAIN rs[1].arr |->
                     SolubilityElement(rs[2].arr[i], rs[1].arr[i],
                                       rs[3].arr[i], pH2O.arr[i])],
                 AnyWarned(rs) \/ pH2O.warned)

\* pH2O = weiss1980(S, T)
SolubilityChecked(rs) == SolubilityResult(rs, weiss1980(rs[2].arr, rs[1].arr))

solubility_weiss1974(sal, temp, press) ==
    SolubilityChecked(<<temp_K(temp), salt(sal), pres_atm(press)>>)

---------------------------------------------------------------------------
(* seaflux/flux_calculations.py                                            *)

\* the sign of fCO2sea - fCO2air for one element.  Both are p * ve * 1e6
\* with ve evaluated at the same T and P, and p * ve increases with p
\* (d ln(p * ve) / dp = 1 / p - 4 * d * (1 - C) / (R * T) > 0 for p < 1).
FugacityDifference(fsea, fair, i) ==
    IF fsea.arr[i] = "nan" \/ fair.arr[i] = "nan" THEN "nan"
    ELSE SignOf(Sub(fsea.p[i], fair.p[i]))

\* the conversions and the six checks of flux_bulk, in the order SSTfnd_K,
\* SSSfnd, press_atm, pCO2sea, pCO2air, wind_ms
FluxChecks(temp_bulk_C, salt_bulk, pCO2_bulk_uatm, pCO2_air_uatm, press_hPa, wind) ==
    <<temp_K(ToKelvin(temp_bulk_C)),
      salt(salt_bulk),
      pres_atm(HPaToAtm(press_hPa)),
      CO2_mol(ToAtm(pCO2_bulk_uatm)),
      CO2_mol(ToAtm(pCO2_air_uatm)),
      wind_ms(wind)>>

\* fCO2sea, fCO2air, K0blk and kw, from the checked values and SSTfnd_C;
\* mC = 12.0108 * 1000 and the factor 24 / 100 of kw are positive
FluxCalls(SSTfnd_C, checks, kw_func) ==
    <<pCO2_to_fCO2(checks[4].arr, checks[1].arr, checks[3].arr),
      pCO2_to_fCO2(checks[5].arr, checks[1].arr, checks[3].arr),
      solubility_weiss1974(checks[2].arr, checks[1].arr, checks[3].arr),
      Kw(kw_func, checks[6].arr, SSTfnd_C)>>

\* flux_bulk = kw * K0blk * (fCO2sea - fCO2air) * mC.  The result also
\* records the pCO2, T and P that fCO2sea was computed from, and the first
\* argument of the call kw_func(wind_ms, SSTfnd_C).
FluxResult(checks, calls) ==
    IF FirstErr(checks) # "none" THEN Raises(FirstErr(checks))
    ELSE IF FirstErr(calls) # "none" THEN Raises(FirstErr(calls))
    ELSE [err    |-> "none",
          arr    |-> [i \in DOMAIN checks[1].arr |->
                         SMul(SMul(calls[4].arr[i], calls[3].arr[i]),
                              FugacityDifference(calls[1], calls[2], i))],
          warned |-> AnyWarned(checks) \/ AnyWarned(calls),
          p      |-> calls[1].p,
          T      |-> calls[1].T,
          P      |-> calls[1].P,
          kw_arg |-> checks[6].arr]

FluxChecked(SSTfnd_C, checks, kw_func) ==
    FluxResult(checks, FluxCalls(SSTfnd_C, checks, kw_func))

flux_bulk(temp_bulk_C, salt_bulk, pCO2_bulk_uatm, pCO2_air_uatm, press_hPa, wind, kw_func) ==
    FluxChecked(temp_bulk_C,
        FluxChecks(temp_bulk_C, salt_bulk, pCO2_bulk_uatm, pCO2_air_uatm,
                   press_hPa, wind),
        kw_func)

---------------------------------------------------------------------------
(* seaflux/flux_calculations.py, statement by statement.  The frame of a   *)
(* running flux_bulk or flux_woolf2016_rapid holds its local variables and *)
(* the log of the checks and formulas it has executed.                     *)

FluxFunctions == {"flux_bulk", "flux_woolf2016_rapid"}

Check(call, var) == [kind |-> "check", call |-> call, var |-> var]

Formula(var) == [kind |-> "formula", call |-> var, var |-> var]

\* the statements of a flux function after its conversions, in the order of
\* the source: var = check.call(var), and var = a formula
FluxProgramKwFirst(func) ==
    IF func = "flux_bulk"
    THEN <<Formula("kw"),
           Check("temp_K", "SSTfnd_K"), Check("salt", "SSSfnd"),
           Check("pres_atm", "press_atm"), Check("CO2_mol", "pCO2sea"),
           Check("CO2_mol", "pCO2air"), Check("wind_ms", "wind_ms"),
           Formula("fCO2sea"), Formula("fCO2air"), Formula("K0fnd")>>
    ELSE <<Formula("kw"),
           Check("pres_atm", "press_atm"), Check("temp_K", "SSTfnd_K"),
           Check("salt", "SSSfnd"), Check("CO2_mol", "pCO2sea"),
           Check("CO2_mol", "pCO2air"), Check("wind_ms", "wind_ms"),
           Formula("fCO2sea"), Formula("fCO2air"), Formula("K0fnd"),
           Formula("K0skn")>>

FluxProgram(func) ==
    IF func = "flux_bulk"
    THEN <<Check("temp_K", "SSTfnd_K"), Check("salt", "SSSfnd"),
           Check("pres_atm", "press_atm"), Check("CO2_mol", "pCO2sea"),
           Check("CO2_mol", "pCO2air"), Check("wind_ms", "wind_ms"),
           Formula("fCO2sea"), Formula("fCO2air"), Formula("K0fnd"),
           Formula("kw")>>
    ELSE <<Check("pres_atm", "press_atm"), Check("temp_K", "SSTfnd_K"),
           Check("salt", "SSSfnd"), Check("CO2_mol", "pCO2sea"),
           Check("CO2_mol", "pCO2air"), Check("wind_ms", "wind_ms"),
           Formula("fCO2sea"), Formula("fCO2air"), Formula("K0fnd"),
           Formula("K0skn"), Formula("kw")>>

\* arr + c and arr - c, elementwise
Plus(arr, c) == [i \in DOMAIN arr |-> Add(arr[i], c)]

Minus(a, b) == [i \in DOMAIN a |-> Sub(a[i], b[i])]

\* the local variables after the conversions.  flux_bulk has no skin
\* layer: its biases are 0 and it never reads the skin variables.
FluxLocals(x, cool_skin_bias, salty_skin_bias) ==
    [press_atm |-> HPaToAtm(x.P),
     SSTfnd_C  |-> x.T,
     SSTskn_C  |-> Plus(x.T, Neg(cool_skin_bias)),
     SSTfnd_K  |-> ToKelvin(x.T),
     SSTskn_K  |-> ToKelvin(Plus(x.T, Neg(cool_skin_bias))),
     SSTdelta  |-> Minus(x.T, Plus(x.T, Neg(cool_skin_bias))),
     SSSfnd    |-> x.S,
     SSSskn    |-> Plus(x.S, salty_skin_bias),
     pCO2sea   |-> ToAtm(x.ps),
     pCO2air   |-> ToAtm(x.pa),
     wind_ms   |-> x.U,
     fCO2sea   |-> <<>>,
     fCO2air   |-> <<>>,
     K0fnd     |-> <<>>,
     K0skn     |-> <<>>,
     kw        |-> <<>>]

Frame(locals) ==
    [err |-> "running", arr |-> <<>>, warned |-> FALSE, log |-> <<>>,
     locals |-> locals]

\* the frame after the statement stmt has produced the result r
Executed(frame, stmt, r, value) ==
    IF ~ Ok(r) THEN [frame EXCEPT !.err = r.err, !.log = Append(@, stmt)]
    ELSE [frame EXCEPT !.log = Append(@, stmt),
                       !.locals[stmt.var] = value,
                       !.warned = @ \/ r.warned]

ExecCheck(stmt, locals) ==
    CASE stmt.call = "temp_K"   -> temp_K(locals[stmt.var])
      [] stmt.call = "salt"     -> salt(locals[stmt.var])
      [] stmt.call = "pres_atm" -> pres_atm(locals[stmt.var])
      [] stmt.call = "CO2_mol"  -> CO2_mol(locals[stmt.var])
      [] stmt.call = "wind_ms"  -> wind_ms(locals[stmt.var])

\* pCO2 * f2p.virial_coeff(SST, press_atm), by its sign
WoolfFugacity(pCO2, ve) ==
    IF ~ Ok(ve) THEN Raises(ve.err)
    ELSE Returns([i \in DOMAIN pCO2 |-> SMul(SignOf(pCO2[i]), ve.arr[i])],
                 ve.warned)

\* solubility_woolf2016: K0 * (1 - 0.015 * deltaT), by its sign
solubility_woolf2016(K0, deltaT) ==
    IF ~ Ok(K0) THEN Raises(K0.err)
    ELSE Returns([i \in DOMAIN deltaT |->
                     SMul(K0.arr[i],
                          SignOf(Sub(Dec(1, 0), Mul(Dec(15, -3), deltaT[i]))))],
                 K0.warned)

ExecFormula(func, var, v, kw_func) ==
    CASE var = "fCO2sea" /\ func = "flux_bulk" ->
             pCO2_to_fCO2(v.pCO2sea, v.SSTfnd_K, v.press_atm)
      [] var = "fCO2air" /\ func = "flux_bulk" ->
             pCO2_to_fCO2(v.pCO2air, v.SSTfnd_K, v.press_atm)
      [] var = "K0fnd" /\ func = "flux_bulk" ->
             solubility_weiss1974(v.SSSfnd, v.SSTfnd_K, v.press_atm)
      [] var = "kw" /\ func = "flux_bulk" ->
             Kw(kw_func, v.wind_ms, v.SSTfnd_C)
      [] var = "fCO2sea" /\ func # "flux_bulk" ->
             WoolfFugacity(v.pCO2sea, virial_coeff(v.SSTfnd_K, v.press_atm, None))
      [] var = "fCO2air" /\ func # "flux_bulk" ->
             WoolfFugacity(v.pCO2air, virial_coeff(v.SSTskn_K, v.press_atm, None))
      [] var = "K0fnd" /\ func # "flux_bulk" ->
             solubility_woolf2016(
                 solubility_weiss1974(v.SSSfnd, v.SSTfnd_K, v.press_atm),
                 v.SSTdelta)
      [] var = "K0skn" /\ func # "flux_bulk" ->
             solubility_woolf2016(
                 solubility_weiss1974(v.SSSskn, v.SSTskn_K, v.press_atm),
                 v.SSTdelta)
      [] var = "kw" /\ func # "flux_bulk" ->
             Kw(kw_func, v.wind_ms, v.SSTskn_C)

\* the sign of a - b from the signs of a and b
SSub(a, b) ==
    IF a = "nan" \/ b = "nan" THEN "nan"
    ELSE IF a = "unknown" \/ b = "unknown" THEN "unknown"
    ELSE IF b = "zero" THEN a
    ELSE IF a = "zero" THEN (IF b = "pos" THEN "neg" ELSE "pos")
    ELSE IF a # b THEN a
    ELSE "unknown"

\* kw * K0blk * (fCO2sea - fCO2air) * mC, and kw * (concSEA - concAIR)
FluxValue(func, v, i) ==
    IF func = "flux_bulk"
    THEN SMul(SMul(v.kw.arr[i], v.K0fnd.arr[i]),
              FugacityDifference(v.fCO2sea, v.fCO2air, i))
    ELSE SMul(v.kw.arr[i],
              SSub(SMul(v.K0fnd.arr[i], v.fCO2sea.arr[i]),
                   SMul(v.K0skn.arr[i], v.fCO2air.arr[i])))

---------------------------------------------------------------------------
(* seaflux/utils.py: preserve_xda.  An input is a DataArray with its attrs *)
(* dictionary, or an array without one; a dictionary is a set of           *)
(* <<key, value>> pairs.                                                   *)

Wrapped == {"flux_bulk", "solubility_weiss1974"}

\* the keys of the dictionary meta that the wrapped function returns as
\* out[1], each with the value the function gives it
Meta(func) ==
    IF func = "flux_bulk"
    THEN {<<"units", "gC / m2 / day">>,
          <<"description", "sea-air CO2 fluxes calculated with Ni00">>,
          <<"long_name", "sea-air CO2 fluxes">>}
    ELSE {<<"units", "mol/L/atm">>,
          <<"description",
            "CO2 solubility in seawater using the formulation of Weiss 1974">>,
          <<"long_name", "CO2 solubility in seawater">>}

Keys(dict) == {kv[1] : kv \in dict}

\* dict.update(other), and the dictionary a copy of dict holds after the
\* same update
Update(dict, other) == {kv \in dict : kv[1] \notin Keys(other)} \cup other

\* the first input that is a DataArray, 0 if there is none
FirstDataArray(inputs) ==
    IF \E i \in DOMAIN inputs : inputs[i].xda
    THEN CHOOSE i \in DOMAIN inputs :
             inputs[i].xda /\ \A j \in 1..(i - 1) : ~ inputs[j].xda
    ELSE 0

\* the attrs of the DataArray that the wrapper returns: attrs = xda.attrs,
\* attrs.update(out[1]), DataArray(..., attrs=attrs); None when no input is
\* a DataArray and the wrapper returns out[0]
ResultAttrs(func, inputs) ==
    IF FirstDataArray(inputs) = 0 THEN None
    ELSE Update(inputs[FirstDataArray(inputs)].attrs, Meta(func))

\* the inputs after the call: attrs = xda.attrs binds the dictionary of the
\* input itself, and attrs.update(out[1]) stores into it
InputsAfter(func, inputs) ==
    [i \in DOMAIN inputs |->
        IF i = FirstDataArray(inputs)
        THEN [inputs[i] EXCEPT !.attrs = Update(@, Meta(func))]
        ELSE inputs[i]]

---------------------------------------------------------------------------
(* The calls.  The arguments of a call are drawn when the behaviour starts *)
(* and the one action enabled then makes the call.                         *)

\* the longest argument array of a formula or flux function
MaxCells == 3

\* a record of arrays of n equal elements, and one with one element replaced
Uniform(rec, n) == [f \in DOMAIN rec |-> [i \in 1..n |-> rec[f]]]

Perturb(arrs, f, i, v) == [arrs EXCEPT ![f][i] = v]

\* the argument arrays built on the records of bases: uniform, or uniform
\* with one element of one array replaced by a value of odd[f]
Inputs(bases, odd) ==
    UNION {
        {Uniform(b, n)} \cup
        UNION { {Perturb(Uniform(b, n), f, i, v) : i \in 1..n, v \in odd[f]}
                : f \in DOMAIN odd }
        : b \in bases, n \in 1..MaxCells }

\* the result of a call that has not been made yet
Pending == [err |-> "pending", arr |-> <<>>, warned |-> FALSE]

\* a caller is about to apply check_array_bounds to an array
InitCheckArrayBounds ==
    \E arr \in Arrays(ArrVals, 1..MaxLen), action \in Actions :
        /\ fn = "check_array_bounds"
        /\ args = [arr |-> arr, lims |-> TestLims, action |-> action,
                   given |-> arr]
        /\ ret = Pending

\* flux_bulk: values inside the limits of every input (and fields whose
\* temperature, pressure and pCO2 are all missing), and for each input a
\* value outside its limits and NaN
FluxBases ==
    [T  : {Dec(5, 0), Dec(25, 0)},
     S  : {Dec(35, 0)},
     ps : {Dec(300, 0), Dec(400, 0)},
     pa : {Dec(300, 0), Dec(400, 0)},
     P  : {Dec(101325, -2)},
     U  : {Dec(0, 0), Dec(5, 0), Dec(20, 0)}]
    \cup
    {[T |-> NaN, S |-> Dec(35, 0), ps |-> NaN, pa |-> NaN, P |-> NaN,
      U |-> Dec(5, 0)]}

FluxOdd ==
    [T  |-> {Dec(60, 0), NaN},
     S  |-> {Dec(60, 0), NaN},
     ps |-> {Dec(2, 0), NaN},
     pa |-> {Dec(2, 0), NaN},
     P  |-> {Dec(2000, 0), NaN},
     U  |-> {Dec(60, 0), NaN}]

\* the kw_func of the calls of flux_bulk: its default k_Ni00 and every
\* other parameterization of gas_transfer_velocity
FluxKwFuncs == KwFuncs

InitFluxBulk ==
    \E x \in Inputs(FluxBases, FluxOdd), k \in FluxKwFuncs :
        /\ fn = "flux_bulk"
        /\ args = [x |-> x, kw_func |-> k]
        /\ ret = Pending

CallFluxBulk ==
    /\ fn = "flux_bulk"
    /\ ret = Pending
    /\ ret' = flux_bulk(args.x.T, args.x.S, args.x.ps, args.x.pa, args.x.P,
                        args.x.U, args.kw_func)
    /\ UNCHANGED <<fn, args, pc>>

\* the valid domain of the temperature, [-2, 45] degrees C, at every whole
\* degree, and of the wind speed, [0, 40] m/s, in each regime of k_Li86 and
\* at its boundaries
DomainTemps == {Dec(t, 0) : t \in -2..45}

DomainWinds == {Dec(0, 0), Dec(2, 0), Dec(36, -1), Dec(5, 0), Dec(13, 0),
                Dec(20, 0), Dec(40, 0)}

\* schmidt_number
InitSchmidtNumber ==
    \E x \in Inputs([T : DomainTemps],
                    [T |-> {Dec(60, 0), Dec(-10, 0), NaN}]) :
        /\ fn = "schmidt_number"
        /\ args = [x |-> x]
        /\ ret = Pending

CallSchmidtNumber ==
    /\ fn = "schmidt_number"
    /\ ret = Pending
    /\ ret' = schmidt_number(args.x.T)
    /\ UNCHANGED <<fn, args, pc>>

\* k_Li86 ... k_Wa14: winds in each regime of k_Li86 and at its boundaries
InitKw ==
    \E x \in Inputs([U : DomainWinds,
                     T : {Dec(-2, 0), Dec(5, 0), Dec(20, 0), Dec(33, 0),
                          Dec(45, 0)}],
                    [U |-> {Dec(60, 0), NaN}, T |-> {Dec(60, 0), NaN}]),
       k \in KwFuncs :
        /\ fn = "kw"
        /\ args = [x |-> x, kw_func |-> k]
        /\ ret = Pending

CallKw ==
    /\ fn = "kw"
    /\ ret = Pending
    /\ ret' = Kw(args.kw_func, args.x.U, args.x.T)
    /\ UNCHANGED <<fn, args, pc>>

\* kw_scaled with the default scaling: positive winds, with and without a
\* spread of the wind in the cell and with and without ice, and for each
\* input a missing value; a cell fully covered by ice
InitKwScaled ==
    \E x \in Inputs([U    : {Dec(5, 0), Dec(10, 0)},
                     Ustd : {Dec(0, 0), Dec(2, 0)},
                     T    : {Dec(20, 0)},
                     ice  : {Dec(0, 0), Dec(5, -1)}],
                    [U    |-> {Dec(60, 0), NaN},
                     Ustd |-> {Dec(1, 0), NaN},
                     T    |-> {Dec(5, 0), NaN},
                     ice  |-> {Dec(1, 0), NaN}]) :
        /\ fn = "kw_scaled"
        /\ args = [x |-> x, scaling |-> Dec(16, 0)]
        /\ ret = Pending

CallKwScaled ==
    /\ fn = "kw_scaled"
    /\ ret = Pending
    /\ ret' = kw_scaled(args.x.U, args.x.Ustd, args.x.T, args.x.ice,
                        args.scaling)
    /\ UNCHANGED <<fn, args, pc>>

\* flux_bulk and flux_woolf2016_rapid with their default parameters, run
\* statement by statement
FluxStepBases ==
    {[T |-> Dec(25, 0), S |-> Dec(35, 0), ps |-> Dec(300, 0),
      pa |-> Dec(400, 0), P |-> Dec(101325, -2), U |-> Dec(5, 0)]}

FluxBiases(func) ==
    IF func = "flux_bulk" THEN <<Dec(0, 0), Dec(0, 0)>>
    ELSE <<Dec(-14, -2), Dec(1, -1)>>

\* the kw_func of the calls run statement by statement: the default, and
\* a parameterization of the second moment of the wind
FluxStepKwFuncs == {"k_Ni00", "k_Ho06"}

InitFlux ==
    \E x \in Inputs(FluxStepBases, FluxOdd), func \in FluxFunctions,
       k \in FluxStepKwFuncs :
        /\ fn = "flux"
        /\ args = [func |-> func, x |-> x, kw_func |-> k,
                   cool_skin_bias |-> FluxBiases(func)[1],
                   salty_skin_bias |-> FluxBiases(func)[2]]
        /\ ret = Pending

\* the conversions at the head of the function
FluxConvert ==
    /\ fn = "flux"
    /\ ret = Pending
    /\ ret' = Frame(FluxLocals(args.x, args.cool_skin_bias,
                               args.salty_skin_bias))
    /\ UNCHANGED <<fn, args, pc>>

Running == fn = "flux" /\ ret # Pending /\ ret.err = "running"

NextStatement == FluxProgram(args.func)[Len(ret.log) + 1]

FluxCheck ==
    /\ Running
    /\ Len(ret.log) < Len(FluxProgram(args.func))
    /\ NextStatement.kind = "check"
    /\ ret' = Executed(ret, NextStatement,
                       ExecCheck(NextStatement, ret.locals),
                       ExecCheck(NextStatement, ret.locals).arr)
    /\ UNCHANGED <<fn, args, pc>>

FluxFormula ==
    /\ Running
    /\ Len(ret.log) < Len(FluxProgram(args.func))
    /\ NextStatement.kind = "formula"
    /\ ret' = Executed(ret, NextStatement,
                       ExecFormula(args.func, NextStatement.var, ret.locals,
                                   args.kw_func),
                       ExecFormula(args.func, NextStatement.var, ret.locals,
                                   args.kw_func))
    /\ UNCHANGED <<fn, args, pc>>

FluxReturn ==
    /\ Running
    /\ Len(ret.log) = Len(FluxProgram(args.func))
    /\ ret' = [ret EXCEPT !.err = "none",
                          !.arr = [i \in DOMAIN args.x.T |->
                                      FluxValue(args.func, ret.locals, i)]]
    /\ UNCHANGED <<fn, args, pc>>

\* the typed validators, called by a caller that has selected a policy;
\* they have no parameter to receive it.  The arrays hold a value inside
\* the limits, one outside them and NaN.
Validators == {"temp_K", "pres_atm", "CO2_mol", "salt", "wind_ms"}

Policies == {"raise", "warn", "quiet", "ignore"}

ValidatorLims(name) ==
    CASE name = "temp_K"   -> TempLims
      [] name = "pres_atm" -> PresLims
      [] name = "CO2_mol"  -> CO2Lims
      [] name = "salt"     -> SaltLims
      [] name = "wind_ms"  -> WindLims

\* the allowable ranges of the docstring of flux_bulk, in the units of the
\* validators: [-2 : 45] degC, [5 : 50] PSU, [50 : 1000] uatm,
\* [500 : 1500] hPa and [0 : 40] m/s
DocLims(name) ==
    CASE name = "temp_K"   -> <<Add(Dec(-2, 0), K27315), Add(Dec(45, 0), K27315)>>
      [] name = "pres_atm" -> <<Div(Dec(500, 0), HPA_PER_ATM),
                                Div(Dec(1500, 0), HPA_PER_ATM)>>
      [] name = "CO2_mol"  -> <<Mul(Dec(50, 0), MICRO), Mul(Dec(1000, 0), MICRO)>>
      [] name = "salt"     -> <<Dec(5, 0), Dec(50, 0)>>
      [] name = "wind_ms"  -> <<Dec(0, 0), Dec(40, 0)>>

\* a value between a documented limit and the limit of the validator:
\* -3 degC, 1.49 atm (1509.7 hPa), 20 uatm, 2 PSU and 45 m/s
ValidatorEdge(name) ==
    CASE name = "temp_K"   -> Dec(27015, -2)
      [] name = "pres_atm" -> Dec(149, -2)
      [] name = "CO2_mol"  -> Dec(2, -5)
      [] name = "salt"     -> Dec(2, 0)
      [] name = "wind_ms"  -> Dec(45, 0)

\* the middle of the limits, twice the upper limit, and the value between
\* the documented limit and the limit of the validator
ValidatorVals(name) ==
    {NaN,
     Mul(Add(ValidatorLims(name)[1], ValidatorLims(name)[2]), Dec(5, -1)),
     Mul(ValidatorLims(name)[2], Dec(2, 0)),
     ValidatorEdge(name)}

Validate(name, arr) ==
    CASE name = "temp_K"   -> temp_K(arr)
      [] name = "pres_atm" -> pres_atm(arr)
      [] name = "CO2_mol"  -> CO2_mol(arr)
      [] name = "salt"     -> salt(arr)
      [] name = "wind_ms"  -> wind_ms(arr)

InitValidator ==
    \E name \in Validators, policy \in Policies :
        \E arr \in Arrays(ValidatorVals(name), 1..MaxCells) :
            /\ fn = "validator"
            /\ args = [name |-> name, arr |-> arr, policy |-> policy]
            /\ ret = Pending

CallValidator ==
    /\ fn = "validator"
    /\ ret = Pending
    /\ ret' = Validate(args.name, args.arr)
    /\ UNCHANGED <<fn, args, pc>>

\* virial_coeff, with and without xCO2_mol
InitVirialCoeff ==
    \E x \in Inputs([T : {Dec(29815, -2)}, P : {Dec(1, 0)}, C : {Dec(4, -4)}],
                    [T |-> {Dec(33315, -2), NaN}, P |-> {Dec(2, 0), NaN},
                     C |-> {Dec(5, -1), NaN}]),
       withC \in BOOLEAN :
        /\ fn = "virial_coeff"
        /\ args = [x |-> x, withC |-> withC]
        /\ ret = Pending

CallVirialCoeff ==
    /\ fn = "virial_coeff"
    /\ ret = Pending
    /\ ret' = virial_coeff(args.x.T, args.x.P,
                           IF args.withC THEN args.x.C ELSE None)
    /\ UNCHANGED <<fn, args, pc>>

\* solubility_weiss1974 and weiss1980
SolubilityInputs ==
    Inputs([S : {Dec(35, 0)}, T : {Dec(29915, -2)}, P : {Dec(1, 0)}],
           [S |-> {Dec(60, 0), NaN}, T |-> {Dec(33315, -2), NaN},
            P |-> {Dec(2, 0), NaN}])

InitSolubility ==
    \E x \in SolubilityInputs :
        /\ fn = "solubility_weiss1974"
        /\ args = [x |-> x]
        /\ ret = Pending

CallSolubility ==
    /\ fn = "solubility_weiss1974"
    /\ ret = Pending
    /\ ret' = solubility_weiss1974(args.x.S, args.x.T, args.x.P)
    /\ UNCHANGED <<fn, args, pc>>

InitWeiss1980 ==
    \E x \in SolubilityInputs :
        /\ fn = "weiss1980"
        /\ args = [x |-> x]
        /\ ret = Pending

CallWeiss1980 ==
    /\ fn = "weiss1980"
    /\ ret = Pending
    /\ ret' = weiss1980(args.x.S, args.x.T)
    /\ UNCHANGED <<fn, args, pc>>

\* pCO2_to_fCO2 and fCO2_to_pCO2, in uatm, degrees C and hPa
ConversionInputs ==
    Inputs([p : {Dec(380, 0)}, T : {Dec(8, 0), Dec(25, 0)},
            P : {Dec(101325, -2), Dec(985, 0)}],
           [p |-> {Dec(2, 0), NaN}, T |-> {Dec(60, 0), NaN},
            P |-> {Dec(2000, 0), NaN}])

InitPCO2ToFCO2 ==
    \E x \in ConversionInputs :
        /\ fn = "pCO2_to_fCO2"
        /\ args = [x |-> x]
        /\ ret = Pending

CallPCO2ToFCO2 ==
    /\ fn = "pCO2_to_fCO2"
    /\ ret = Pending
    /\ ret' = pCO2_to_fCO2(args.x.p, args.x.T, args.x.P)
    /\ UNCHANGED <<fn, args, pc>>

InitFCO2ToPCO2 ==
    \E x \in ConversionInputs :
        /\ fn = "fCO2_to_pCO2"
        /\ args = [x |-> x]
        /\ ret = Pending

CallFCO2ToPCO2 ==
    /\ fn = "fCO2_to_pCO2"
    /\ ret = Pending
    /\ ret' = fCO2_to_pCO2(args.x.p, args.x.T, args.x.P)
    /\ UNCHANGED <<fn, args, pc>>

\* the round trip of the tests' scalar calls: fCO2_to_pCO2(f, T), then
\* pCO2_to_fCO2 of its result at the same T
RoundTripFugacities == {50, 200, 380, 1000}

RoundTripTemperatures == {Dec(-2, 0), Dec(8, 0), Dec(25, 0), Dec(45, 0)}

InitRoundTrip ==
    \E f \in RoundTripFugacities, T \in RoundTripTemperatures :
        /\ fn = "round_trip"
        /\ args = [f |-> f, T |-> T]
        /\ ret = Pending

RoundTripOut ==
    /\ fn = "round_trip"
    /\ ret = Pending
    /\ ret' = [err |-> "none", arr |-> <<>>, warned |-> FALSE,
               stage |-> "pCO2",
               excess |-> PartialExcess(args.f,
                              Hundredths(Add(args.T, K27315))),
               shift |-> 0]
    /\ UNCHANGED <<fn, args, pc>>

RoundTripBack ==
    /\ fn = "round_trip"
    /\ ret # Pending
    /\ ret.stage = "pCO2"
    /\ ret' = [ret EXCEPT !.stage = "fCO2",
                          !.shift = FugacityShift(args.f,
                                        Hundredths(Add(args.T, K27315)),
                                        ret.excess)]
    /\ UNCHANGED <<fn, args, pc>>

\* fCO2_to_pCO2(380, T) of either module, with and without tempEQ_C
InitEquilibrator ==
    \E module \in ConversionModules,
       T \in {Dec(8, 0), Dec(25, 0)},
       Teq \in {None, Dec(8, 0), Dec(14, 0), Dec(25, 0)} :
        /\ fn = "fCO2_to_pCO2_tempEQ"
        /\ args = [module |-> module, tempSW_C |-> T, tempEQ_C |-> Teq]
        /\ ret = Pending

CallEquilibrator ==
    /\ fn = "fCO2_to_pCO2_tempEQ"
    /\ ret = Pending
    /\ ret' = EquilibratorFactor(args.module, args.tempSW_C, args.tempEQ_C)
    /\ UNCHANGED <<fn, args, pc>>

\* a wrapped function called on two inputs: arrays, and DataArrays with and
\* without attributes of their own
WrappedInputs ==
    {[xda |-> FALSE, attrs |-> {}],
     [xda |-> TRUE, attrs |-> {}],
     [xda |-> TRUE, attrs |-> {<<"units", "degC">>}],
     [xda |-> TRUE, attrs |-> {<<"units", "PSU">>, <<"source", "EN4">>}]}

InitPreserveXda ==
    \E func \in Wrapped, a \in WrappedInputs, b \in WrappedInputs :
        /\ fn = "preserve_xda"
        /\ args = [func |-> func, inputs |-> <<a, b>>, given |-> <<a, b>>]
        /\ ret = Pending

\* args.inputs are the caller's objects and args.given what they held when
\* the call was made
CallPreserveXda ==
    /\ fn = "preserve_xda"
    /\ ret = Pending
    /\ ret' = [err |-> "none", arr |-> <<>>, warned |-> FALSE,
               attrs |-> ResultAttrs(args.func, args.inputs)]
    /\ args' = [args EXCEPT !.inputs = InputsAfter(args.func, args.inputs)]
    /\ UNCHANGED <<fn, pc>>

---------------------------------------------------------------------------
(* notebooks/prallel_decorators.py: ThreadWithReturnValue, asynk, synk.    *)
(* Thread 0 is the main thread and threads 1..MaxThreads are the threads   *)
(* that calls of asynk-decorated functions start.                          *)

\* the most threads that asynk-decorated functions start in one program
MaxThreads == 2

Threads == 0..MaxThreads

AsynkThreads == 1..MaxThreads

\* the position of every thread before the program runs: the main thread
\* is in its code and no other thread has been started
MainThreadOnly == [t \in Threads |-> IF t = 0 THEN "target" ELSE "unstarted"]

\* threading.activeCount(): the Thread objects that are alive; the main
\* thread is always one of them
ActiveCount(p) ==
    1 + Cardinality({t \in AsynkThreads : p[t] \notin {"unstarted", "finished"}})

\* the test of "while threading.activeCount() > 1"
SynkWaitsForTwo(count) == count > 2

SynkWaits(count) == count > 1

\* the asynk-decorated functions that the code of thread s has yet to call
ToStart(s) ==
    {t \in AsynkThreads : args.starter[t] = s /\ t <= args.n
                          /\ pc[t] = "unstarted"}

\* the code of thread c calls a synk-decorated function after its calls of
\* asynk-decorated functions: the main thread always does
CallsSynk(c) == IF c = 0 THEN TRUE ELSE args.body[c] = "synk"

\* a program: the main thread and the targets of n threads, each started
\* by the main thread or by a thread started before it
InitSynk ==
    \E n \in 0..MaxThreads,
       body \in [AsynkThreads -> {"work", "synk"}],
       starter \in [AsynkThreads -> Threads] :
        /\ \A t \in AsynkThreads :
              /\ starter[t] < t
              /\ t > n => (body[t] = "work" /\ starter[t] = 0)
        /\ fn = "synk"
        /\ args = [n |-> n, body |-> body, starter |-> starter]
        /\ ret = Pending

\* asynk._inner called by thread s: func_th = ThreadWithReturnValue(...),
\* func_th.start(), return func_th
AsynkStart(s, t) ==
    /\ fn = "synk"
    /\ pc[s] = "target"
    /\ t \in ToStart(s)
    /\ \A u \in ToStart(s) : t <= u
    /\ pc' = [pc EXCEPT ![t] = "target"]
    /\ UNCHANGED <<fn, args, ret>>

\* thread c calls a synk-decorated function and reaches the while statement
\* of synk._inner
SynkCall(c) ==
    /\ fn = "synk"
    /\ pc[c] = "target"
    /\ ToStart(c) = {}
    /\ CallsSynk(c)
    /\ pc' = [pc EXCEPT ![c] = "while"]
    /\ UNCHANGED <<fn, args, ret>>

\* "while threading.activeCount() > 1:" is true and the thread goes to
\* time.sleep(1)
SynkSleep(c) ==
    /\ fn = "synk"
    /\ pc[c] = "while"
    /\ SynkWaits(ActiveCount(pc))
    /\ pc' = [pc EXCEPT ![c] = "sleep"]
    /\ UNCHANGED <<fn, args, ret>>

\* time.sleep(1) returns and the thread is back at the while statement
SynkWake(c) ==
    /\ fn = "synk"
    /\ pc[c] = "sleep"
    /\ pc' = [pc EXCEPT ![c] = "while"]
    /\ UNCHANGED <<fn, args, ret>>

\* the test of the while statement is false and the thread enters
\* func(*args, **kwargs), the body of the decorated function
SynkEnter(c) ==
    /\ fn = "synk"
    /\ pc[c] = "while"
    /\ ~ SynkWaits(ActiveCount(pc))
    /\ pc' = [pc EXCEPT ![c] = "func"]
    /\ UNCHANGED <<fn, args, ret>>

\* func returns and synk._inner returns its value to the code of thread c
SynkReturn(c) ==
    /\ fn = "synk"
    /\ pc[c] = "func"
    /\ pc' = [pc EXCEPT ![c] = "returned"]
    /\ UNCHANGED <<fn, args, ret>>

\* ThreadWithReturnValue.run: self._return = self._target(...); the target
\* has returned and the thread stops being alive
TargetReturn(t) ==
    /\ fn = "synk"
    /\ t \in AsynkThreads
    /\ \/ pc[t] = "target" /\ ToStart(t) = {} /\ ~ CallsSynk(t)
       \/ pc[t] = "returned"
    /\ pc' = [pc EXCEPT ![t] = "finished"]
    /\ UNCHANGED <<fn, args, ret>>

\* the steps of thread c
ThreadStep(c) ==
    \/ \E t \in AsynkThreads : AsynkStart(c, t)
    \/ SynkCall(c)
    \/ SynkSleep(c)
    \/ SynkWake(c)
    \/ SynkEnter(c)
    \/ SynkReturn(c)
    \/ TargetReturn(c)

Init ==
    /\ pc = MainThreadOnly
    /\ \/ InitSynk
       \/ InitPreserveXda
       \/ InitEquilibrator
       \/ InitRoundTrip
       \/ InitCheckArrayBounds
       \/ InitFluxBulk
       \/ InitSchmidtNumber
       \/ InitKw
       \/ InitKwScaled
       \/ InitFlux
       \/ InitValidator
       \/ InitVirialCoeff
       \/ InitSolubility
       \/ InitWeiss1980
       \/ InitPCO2ToFCO2
       \/ InitFCO2ToPCO2

\* the array of the caller after the call, which stored into the array of
\* the result masked: arr = array(arr, ndmin=1, dtype=float) binds the
\* local name to a copy, so the stores arr[outside] = nan leave the
\* caller's array alone
CallerArrayShared(arr, masked) == masked

CallerArray(arr, masked) == arr

\* args.arr is the caller's array and args.given the values it held when
\* the call was made
CallCheckArrayBounds ==
    /\ fn = "check_array_bounds"
    /\ ret = Pending
    /\ ret' = check_array_bounds(args.arr, args.lims, args.action)
    /\ args' = [args EXCEPT !.arr =
                   IF Ok(check_array_bounds(args.arr, args.lims, args.action))
                   THEN CallerArray(args.arr,
                            check_array_bounds(args.arr, args.lims,
                                               args.action).arr)
                   ELSE args.arr]
    /\ UNCHANGED <<fn, pc>>

Next ==
    \/ \E s \in Threads, t \in AsynkThreads : AsynkStart(s, t)
    \/ \E c \in Threads : SynkCall(c)
    \/ \E c \in Threads : SynkSleep(c)
    \/ \E c \in Threads : SynkWake(c)
    \/ \E c \in Threads : SynkEnter(c)
    \/ \E c \in Threads : SynkReturn(c)
    \/ \E t \in AsynkThreads : TargetReturn(t)
    \/ CallPreserveXda
    \/ CallEquilibrator
    \/ RoundTripOut
    \/ RoundTripBack
    \/ CallCheckArrayBounds
    \/ CallFluxBulk
    \/ CallSchmidtNumber
    \/ CallKw
    \/ CallKwScaled
    \/ FluxConvert
    \/ FluxCheck
    \/ FluxFormula
    \/ FluxReturn
    \/ CallValidator
    \/ CallVirialCoeff
    \/ CallSolubility
    \/ CallWeiss1980
    \/ CallPCO2ToFCO2
    \/ CallFCO2ToPCO2

Spec == Init /\ [][Next]_vars

\* every thread that can take a step is scheduled in the end
Fairness == \A c \in Threads : WF_vars(ThreadStep(c))

SpecFair == Init /\ [][Next]_vars /\ Fairness

---------------------------------------------------------------------------
(* Claims about check_array_bounds                                         *)

IsCheck == fn = "check_array_bounds" /\ ret # Pending

\* the elements of the array of the call that lie strictly below the lower
\* or strictly above the upper limit
Violations ==
    {i \in DOMAIN args.arr :
        /\ ~ IsNaN(args.arr[i])
        /\ Lt(args.arr[i], args.lims[1]) \/ Lt(args.lims[2], args.arr[i])}

NonMissing == {i \in DOMAIN args.arr : ~ IsNaN(args.arr[i])}

MajorityOutside == 2 * Cardinality(Violations) > Cardinality(NonMissing)

\* C1: under "quiet", an array of more than 2 elements of which at most half
\* of the non-missing ones lie outside the limits comes back with the same
\* shape, NaN exactly at the elements outside the limits, the rest unchanged.
C1_QuietMasksExactlyOutside ==
    (IsCheck /\ args.action = "quiet" /\ Len(args.arr) > 2 /\ ~ MajorityOutside)
        => /\ ret.err = "none"
           /\ Len(ret.arr) = Len(args.arr)
           /\ \A i \in DOMAIN args.arr :
                 ret.arr[i] = IF i \in Violations THEN NaN ELSE args.arr[i]

C1_Witness ==
    /\ IsCheck /\ args.action = "quiet" /\ Len(args.arr) > 2
    /\ ret.err = "none"
    /\ \E i, j, k \in DOMAIN args.arr :
          /\ i \in Violations /\ IsNaN(ret.arr[i])
          /\ args.arr[j] = args.lims[2] /\ ret.arr[j] = args.arr[j]
          /\ args.arr[k] = args.lims[1] /\ ret.arr[k] = args.arr[k]

\* C2: under raise, warn and quiet, an array of more than 2 elements with
\* strictly more violations than half its non-missing elements makes the
\* call raise UnitError and return no array; NaN elements are neither
\* violations nor part of the count that is halved.
C2_MajorityRaisesUnitError ==
    (IsCheck /\ args.action \in {"raise", "warn", "quiet"}
             /\ Len(args.arr) > 2 /\ MajorityOutside)
        => ret.err = "UnitError" /\ ret.arr = <<>>

C2_Witness ==
    /\ IsCheck /\ args.action = "quiet" /\ Len(args.arr) > 2
    /\ MajorityOutside
    /\ 2 * Cardinality(Violations) <= Len(args.arr)
    /\ ret.err = "UnitError"

\* C3: under "ignore" the call never raises and returns every element
\* unchanged, however many elements violate the limits.
C3_IgnoreNeverRaises ==
    (IsCheck /\ args.action = "ignore")
        => ret.err = "none" /\ ret.arr = args.arr

\* C4: under "raise", on an array of more than 2 elements, the call fails
\* with UnitError exactly when some element is outside the limits, and
\* otherwise raises nothing and returns the array unchanged.
C4_RaiseIffSomeOutside ==
    (IsCheck /\ args.action = "raise" /\ Len(args.arr) > 2)
        => /\ (ret.err = "UnitError") <=> (Violations # {})
           /\ (Violations = {}) => (ret.err = "none" /\ ret.arr = args.arr)

---------------------------------------------------------------------------
(* Claims about flux_bulk                                                  *)

IsFluxBulk == fn = "flux_bulk" /\ ret # Pending

Cells == DOMAIN args.x.T

\* v lies strictly below the lower or strictly above the upper limit
OutOf(v, lims) == Lt(v, lims[1]) \/ Gt(v, lims[2])

\* v is a number between the limits, the limits included
Within(v, lims) == ~ IsNaN(v) /\ ~ OutOf(v, lims)

\* the inputs of flux_bulk at cell i, in the units of their validators
FluxTempK(i) == Add(args.x.T[i], Dec(27315, -2))

FluxPresAtm(i) == Div(args.x.P[i], Dec(101325, -2))

FluxSeaAtm(i) == Mul(args.x.ps[i], Dec(1, -6))

FluxAirAtm(i) == Mul(args.x.pa[i], Dec(1, -6))

FluxInputOutside(i) ==
    \/ OutOf(FluxTempK(i), TempLims)
    \/ OutOf(args.x.S[i], SaltLims)
    \/ OutOf(FluxSeaAtm(i), CO2Lims)
    \/ OutOf(FluxAirAtm(i), CO2Lims)
    \/ OutOf(FluxPresAtm(i), PresLims)
    \/ OutOf(args.x.U[i], WindLims)

FluxInputsInside(i) ==
    /\ Within(FluxTempK(i), TempLims)
    /\ Within(args.x.S[i], SaltLims)
    /\ Within(FluxSeaAtm(i), CO2Lims)
    /\ Within(FluxAirAtm(i), CO2Lims)
    /\ Within(FluxPresAtm(i), PresLims)
    /\ Within(args.x.U[i], WindLims)

\* C5: on the way from the inputs of flux_bulk to the virial expansion each
\* conversion is applied once: for valid inputs, the expansion of the sea
\* fugacity is evaluated at temp_bulk_C + 273.15 and press_hPa / 1013.25,
\* for pCO2_bulk_uatm * 1e-6.
C5_ConversionsAppliedOnce ==
    (IsFluxBulk /\ ret.err = "none")
        => \A i \in Cells : FluxInputsInside(i) =>
              /\ Eq(ret.T[i], FluxTempK(i))
              /\ Eq(ret.P[i], FluxPresAtm(i))
              /\ Eq(ret.p[i], FluxSeaAtm(i))

\* C6: when every element of the six inputs of flux_bulk lies inside its
\* validator limits, the call returns a flux and raises nothing, whatever
\* the size of the inputs.
C6_ValidInputsReturn ==
    (IsFluxBulk /\ \A i \in Cells : FluxInputsInside(i))
        => /\ ret.err = "none"
           /\ \A i \in Cells : ret.arr[i] # "nan"

FluxDomain(i) ==
    FluxInputsInside(i) /\ ~ Gt(args.x.U[i], Dec(40, 0))

---------------------------------------------------------------------------
(* Claims about the formula functions                                      *)

FormulaFunctions ==
    {"schmidt_number", "kw", "virial_coeff", "solubility_weiss1974",
     "weiss1980", "pCO2_to_fCO2", "fCO2_to_pCO2"}

\* a validated input of the formula function of the call lies outside its
\* limits at cell i
ValidatedInputOutside(i) ==
    CASE fn = "schmidt_number" ->
            OutOf(Add(args.x.T[i], Dec(27315, -2)), TempLims)
      [] fn = "kw" ->
            \/ OutOf(Add(args.x.T[i], Dec(27315, -2)), TempLims)
            \/ args.kw_func \in ChecksWind /\ OutOf(args.x.U[i], WindLims)
      [] fn = "virial_coeff" ->
            \/ OutOf(args.x.T[i], TempLims)
            \/ OutOf(args.x.P[i], PresLims)
            \/ args.withC /\ OutOf(args.x.C[i], CO2Lims)
      [] fn = "solubility_weiss1974" ->
            \/ OutOf(args.x.T[i], TempLims)
            \/ OutOf(args.x.S[i], SaltLims)
            \/ OutOf(args.x.P[i], PresLims)
      [] fn = "weiss1980" ->
            \/ OutOf(args.x.T[i], TempLims)
            \/ OutOf(args.x.S[i], SaltLims)
      [] fn \in {"pCO2_to_fCO2", "fCO2_to_pCO2"} ->
            \/ OutOf(Add(args.x.T[i], Dec(27315, -2)), TempLims)
            \/ OutOf(Mul(args.x.p[i], Dec(1, -6)), CO2Lims)
            \/ OutOf(Div(args.x.P[i], Dec(101325, -2)), PresLims)

\* element i of the result is missing
MissingResult(i) ==
    IF fn = "schmidt_number" THEN IsNaN(ret.arr[i]) ELSE ret.arr[i] = "nan"

\* C9: in every formula function that validates an input, on arrays of more
\* than 2 elements of which a minority is out of range, an out-of-range
\* element of a validated input gives a missing element of the result.
C9_FormulasUseMaskedInputs ==
    (fn \in FormulaFunctions /\ ret # Pending /\ ret.err = "none"
        /\ Len(args.x.T) > 2)
        => \A i \in DOMAIN args.x.T : ValidatedInputOutside(i) => MissingResult(i)

\* C10: in every gas-transfer parameterization, a cell whose wind is NaN
\* has a NaN kw, never zero or another number.
C10_MissingWindGivesMissingKw ==
    (fn = "kw" /\ ret # Pending /\ ret.err = "none")
        => \A i \in DOMAIN args.x.U : IsNaN(args.x.U[i]) => ret.arr[i] = "nan"

---------------------------------------------------------------------------
(* Claims about small arrays                                               *)

---------------------------------------------------------------------------
(* Claims about the gas transfer velocities                                *)

IsKw == fn \in {"kw", "kw_scaled"} /\ ret # Pending

\* the validator of the wind, or the validator of the temperature, finds
\* an element of the argument outside its limits
KwInputOutside ==
    \E i \in DOMAIN args.x.U :
        \/ OutOf(args.x.U[i], WindLims)
        \/ OutOf(Add(args.x.T[i], K27315), TempLims)

\* C12: every gas-transfer-velocity function passes both its wind argument
\* and its temperature argument through the validator before it applies
\* its formula: on arguments of more than 2 elements of which one is
\* outside the validator's limits, the call raises or warns.
C12_WindAndTemperatureValidated ==
    (IsKw /\ Len(args.x.U) > 2 /\ KwInputOutside)
        => (ret.err = "UnitError" \/ ret.warned)

---------------------------------------------------------------------------
(* Claims about the flux functions, statement by statement                 *)

IsFlux == fn = "flux" /\ ret # Pending

\* the variables that hold the six inputs
SixInputs ==
    {"SSTfnd_K", "SSSfnd", "pCO2sea", "pCO2air", "press_atm", "wind_ms"}

\* the variables checked by the first k statements of the log
CheckedBefore(k) ==
    {ret.log[j].var : j \in {j \in 1..(k - 1) : ret.log[j].kind = "check"}}

\* C13: in flux_bulk and flux_woolf2016_rapid, all six inputs have been
\* passed through the validator before the first formula is evaluated.
C13_ChecksBeforeFormulas ==
    IsFlux => \A k \in DOMAIN ret.log :
                  ret.log[k].kind = "formula" => SixInputs \subseteq CheckedBefore(k)

\* flux_woolf2016_rapid has returned after its six checks and five formulas
C13_Witness ==
    /\ IsFlux
    /\ args.func = "flux_woolf2016_rapid"
    /\ ret.err = "none"
    /\ Len(ret.log) = 11
    /\ \E k \in DOMAIN ret.log : ret.log[k].kind = "formula"

\* C14: the validation policy applied to an input is the one selected by
\* the caller; the typed validators do not fix the policy themselves.  On
\* an array with an element outside the limits, where the policies differ:
C14_CallerSelectsPolicy ==
    (/\ fn = "validator" /\ ret # Pending
     /\ \E i \in DOMAIN args.arr :
            Outside(args.arr, ValidatorLims(args.name))[i])
        => ret = check_array_bounds(args.arr, ValidatorLims(args.name),
                                    args.policy)

\* C15: with default parameters, flux_woolf2016_rapid computes a skin
\* temperature 0.14 degrees C lower than the bulk temperature and a skin
\* salinity 0.1 PSU higher than the bulk salinity.
C15_SkinCoolerAndSaltier ==
    (IsFlux /\ args.func = "flux_woolf2016_rapid")
        => \A i \in DOMAIN args.x.T :
              /\ ~ IsNaN(args.x.T[i])
                    => Eq(ret.locals.SSTskn_C[i], Sub(args.x.T[i], Dec(14, -2)))
              /\ ~ IsNaN(args.x.S[i])
                    => Eq(ret.locals.SSSskn[i], Add(args.x.S[i], Dec(1, -1)))

---------------------------------------------------------------------------
(* Claims about kw_scaled                                                  *)

IsKwScaled == fn = "kw_scaled" /\ ret # Pending /\ ret.err = "none"

\* the second moment, the Schmidt term and the calibration weight of the
\* cells of the call
CallU2 == SecondMoment(args.x.U, args.x.Ustd)

CallSc660 == Sc660Of(schmidt_number(args.x.T).arr)

CallWeight == ScaledAlphaWeight(CallU2, CallSc660, args.x.ice)

Times(xs, ys) == [i \in DOMAIN xs |-> Mul(xs[i], ys[i])]

\* the weighted mean of the cells that are not nan, from the products
\* rounded to 4 decimals
WeightedMean(xs, w) ==
    FloatDiv(nansum([i \in DOMAIN xs |-> around4(Times(xs, w)[i])]), nansum(w))

\* the rounding of the products of a weighted mean of at most 10 cells
\* whose weights add up to 0.5 or more
MeanTolerance == Dec(1, -3)

Distance(a, b) == IF Lt(a, b) THEN Sub(b, a) ELSE Sub(a, b)

\* C16: kw_scaled returns for every cell alpha * <U2> * (Sc / 660) ** -0.5
\* with <U2> = wind_speed ** 2 + wind_grid_stdev ** 2, so that the
\* (1 - ice_frac)-weighted mean of the returned kw is the scaling target,
\* up to the rounding of alpha to 4 decimals.
C16_ScaledWithSecondMoment ==
    (IsKwScaled /\ ~ IsNaN(ret.alpha))
        => /\ \A i \in DOMAIN ret.arr :
                 (~ IsNaN(CallU2[i]) /\ ~ IsNaN(CallSc660[i]))
                     => Eq(ret.arr[i],
                           Mul(Mul(ret.alpha, CallU2[i]), CallSc660[i]))
           /\ ~ Gt(Distance(WeightedMean(ret.arr, CallWeight), args.scaling),
                   Add(MeanTolerance,
                       Mul(Dec(5, -5),
                           WeightedMean(Times(CallU2, CallSc660), CallWeight))))

\* a cell whose wind second moment, Schmidt term or ice fraction is missing
MissingCell(i) ==
    IsNaN(CallU2[i]) \/ IsNaN(CallSc660[i]) \/ IsNaN(args.x.ice[i])

\* the cells that are neither missing nor fully covered by ice
OpenCells ==
    {i \in DOMAIN args.x.ice :
        ~ MissingCell(i) /\ ~ Eq(args.x.ice[i], Dec(1, 0))}

\* the elements of xs at the indices of S from i up, in order
RECURSIVE Kept(_, _, _)
Kept(xs, S, i) ==
    IF i > Len(xs) THEN <<>>
    ELSE IF i \in S THEN <<xs[i]>> \o Kept(xs, S, i + 1)
    ELSE Kept(xs, S, i + 1)

OpenWater == [i \in DOMAIN args.x.ice |-> Sub(Dec(1, 0), args.x.ice[i])]

SameFloat(a, b) == (IsNaN(a) /\ IsNaN(b)) \/ Eq(a, b)

\* C17: in the calibration of alpha the weight of a cell is 1 - ice_frac,
\* and 0 wherever the wind second moment, the Schmidt term or the ice
\* fraction is missing; a cell of weight 0 contributes to neither sum of the
\* weighted mean: alpha is the alpha of the other cells alone.
C17_ZeroWeightCellsExcluded ==
    IsKwScaled
        => /\ \A i \in DOMAIN args.x.ice :
                 Eq(CallWeight[i],
                    IF MissingCell(i) THEN Dec(0, 0) ELSE OpenWater[i])
           /\ SameFloat(ret.alpha,
                  ScaledAlphaOfWeight(Kept(CallU2, OpenCells, 1),
                                      Kept(CallSc660, OpenCells, 1),
                                      Kept(OpenWater, OpenCells, 1),
                                      args.scaling))

\* a cell with a missing wind and no ice among cells that calibrate alpha
C17_Witness ==
    /\ IsKwScaled
    /\ ~ IsNaN(ret.alpha)
    /\ \E i \in DOMAIN args.x.U :
          IsNaN(args.x.U[i]) /\ Eq(args.x.ice[i], Dec(0, 0))

---------------------------------------------------------------------------
(* Claims about the regimes of k_Li86                                      *)

IsLi86 ==
    fn = "kw" /\ args.kw_func = "k_Li86" /\ ret # Pending /\ ret.err = "none"

\* C18: k_Li86 assigns every non-missing wind speed to exactly one of its
\* three regimes: each element of kw is written by exactly one formula.
C18_OneRegimePerWind ==
    IsLi86 => \A i \in DOMAIN args.x.U :
                 ~ IsNaN(args.x.U[i]) => Cardinality(ret.regimes[i]) = 1

\* a wind on the boundary U = 13.0 has been assigned to one regime
C18_Witness ==
    /\ IsLi86
    /\ \E i \in DOMAIN args.x.U :
          Eq(args.x.U[i], Dec(13, 0)) /\ ret.regimes[i] = {"rough"}

\* C19, as claimed: at each boundary the formula applied is that of the
\* higher regime: the transitional formula at U = 3.6 and the
\* rough-surface formula at U = 13.0.
C19_BoundaryInHigherRegime ==
    IsLi86 => \A i \in DOMAIN args.x.U :
                 /\ Eq(args.x.U[i], Dec(36, -1))
                       => /\ ret.regimes[i] = {"transitional"}
                          /\ Eq(ret.term[i], Li86TransitionalTerm(args.x.U[i]))
                 /\ Eq(args.x.U[i], Dec(13, 0))
                       => /\ ret.regimes[i] = {"rough"}
                          /\ Eq(ret.term[i], Li86RoughTerm(args.x.U[i]))

\* C19, amended: at U = 3.6 the formula applied is the smooth-surface
\* formula of the lower regime, and at U = 13.0 the rough-surface formula
\* of the higher regime.
C19_BoundaryRegimes ==
    IsLi86 => \A i \in DOMAIN args.x.U :
                 /\ Eq(args.x.U[i], Dec(36, -1))
                       => /\ ret.regimes[i] = {"smooth"}
                          /\ Eq(ret.term[i], Li86SmoothTerm(args.x.U[i]))
                 /\ Eq(args.x.U[i], Dec(13, 0))
                       => /\ ret.regimes[i] = {"rough"}
                          /\ Eq(ret.term[i], Li86RoughTerm(args.x.U[i]))

\* a wind of 3.6 m/s has been given the wind term 0.17 * 3.6 = 0.612
C19_Witness ==
    /\ IsLi86
    /\ \E i \in DOMAIN args.x.U :
          Eq(args.x.U[i], Dec(36, -1)) /\ Eq(ret.term[i], Dec(612, -3))

\* C20: k_Li86 has no jump at its boundaries: at U = 3.6 the smooth and
\* transitional formulas give the same kw and at U = 13.0 the transitional
\* and rough formulas give the same kw, at the Schmidt number where both
\* Schmidt factors are 1.
C20_ContinuousAtBoundaries ==
    IsLi86 => \A i \in DOMAIN args.x.U :
                 /\ Eq(args.x.U[i], Dec(36, -1))
                       => Eq(Li86SmoothTerm(args.x.U[i]),
                             Li86TransitionalTerm(args.x.U[i]))
                 /\ Eq(args.x.U[i], Dec(13, 0))
                       => Eq(Li86TransitionalTerm(args.x.U[i]),
                             Li86RoughTerm(args.x.U[i]))

---------------------------------------------------------------------------
(* Claims about the kw_func strategy of the flux functions                 *)

\* the same call of flux_bulk with the strategy k
FluxWith(k) ==
    flux_bulk(args.x.T, args.x.S, args.x.ps, args.x.pa, args.x.P, args.x.U, k)

FluxReturned == IsFluxBulk /\ ret.err = "none"

\* the parameterizations with a constant term: k_Mc01 = 3.3 + ... and
\* k_Wa09 = 3.0 + ...
Intercept == {"k_Mc01", "k_Wa09"}

\* the flux r of the call has, at every cell of the set S, the sign of
\* the flux d
SameSigns(r, d, S) ==
    d.err = "none" => \A i \in S : r.arr[i] = d.arr[i]

WindyCells ==
    {i \in Cells : Gt(args.x.U[i], Dec(0, 0)) /\ ~ Gt(args.x.U[i], Dec(40, 0))}

CalmCells == {i \in Cells : Eq(args.x.U[i], Dec(0, 0)) /\ FluxDomain(i)}

---------------------------------------------------------------------------
(* Claims about the documented ranges                                      *)

\* C22: on arrays of more than 2 elements, the validators that flux_bulk
\* applies treat as out of range every value outside the allowable range
\* of the docstring of flux_bulk: the value is masked or the call raises.
C22_DocumentedRangesEnforced ==
    (fn = "validator" /\ ret # Pending /\ ret.err = "none"
        /\ Len(args.arr) > 2)
        => \A i \in DOMAIN args.arr :
              OutOf(args.arr[i], DocLims(args.name)) => IsNaN(ret.arr[i])

---------------------------------------------------------------------------
(* Claims about the conversions between pCO2 and fCO2                      *)

\* C23: for every valid fugacity and sea-surface temperature,
\* pCO2_to_fCO2(fCO2_to_pCO2(fCO2, T_sw), T_sw) is within 1e-6 uatm of fCO2.
\* ret.shift is the difference in 1e-12 uatm.
C23_RoundTripWithinTolerance ==
    (fn = "round_trip" /\ ret # Pending /\ ret.stage = "fCO2")
        => /\ ret.shift <= 1000000
           /\ - ret.shift <= 1000000

\* C24: in both versions of fCO2_to_pCO2 the call completes whether or not
\* tempEQ_C is supplied: without it the equilibrator temperature is the
\* seawater temperature and the factor is 1, and with it the factor is
\* temperature_correction(Tsw, Teq).
C24_CompletesWithAndWithoutTempEQ ==
    (fn = "fCO2_to_pCO2_tempEQ" /\ ret # Pending)
        => /\ ret.err = "none"
           /\ IF args.tempEQ_C = None
              THEN /\ ret.Teq = Add(args.tempSW_C, K27315)
                   /\ ret.dT = <<"1.0">>
              ELSE ret.dT = <<"temperature_correction",
                              Add(args.tempSW_C, K27315),
                              Add(args.tempEQ_C, K27315)>>

---------------------------------------------------------------------------
(* Claims about the argument of the kw_func strategy                       *)

\* the parameterizations whose first parameter is wind_second_moment
OnSecondMoment == {"k_Wa92", "k_Ho06", "k_Sw07", "k_Wa14"}

\* the quantity kw_func is defined on, at a cell with the wind U
KwQuantity(kw_func, U) == IF kw_func \in OnSecondMoment THEN Mul(U, U) ELSE U

\* the array supplied to kw_func holds, at every cell the check of the
\* wind has kept, the quantity kw_func is defined on
SuppliesQuantity(supplied) ==
    \A i \in Cells :
        ~ IsNaN(supplied[i])
            => Eq(supplied[i], KwQuantity(args.kw_func, args.x.U[i]))

\* C25: for every parameterization passed as kw_func, flux_bulk and
\* flux_woolf2016_rapid supply as first argument the quantity it is defined
\* on: the wind speed for k_Li86, k_Wa99, k_Ni00, k_Mc01 and k_Wa09, and the
\* second moment of the wind for k_Wa92, k_Ho06, k_Sw07 and k_Wa14.
C25_KwFuncReceivesItsQuantity ==
    /\ FluxReturned => SuppliesQuantity(ret.kw_arg)
    /\ (IsFlux /\ ret.err = "none") => SuppliesQuantity(ret.locals.wind_ms)

---------------------------------------------------------------------------
(* Claims about the effects of a call on its arguments                     *)

C27_InputAttrsUnchanged ==
    (fn = "preserve_xda" /\ ret # Pending)
        => \A i \in DOMAIN args.inputs :
              args.inputs[i].attrs = args.given[i].attrs

\* C28: schmidt_number is strictly positive at every temperature in
\* [-2, 45] degrees C, and with it every gas-transfer parameterization
\* returns kw >= 0 for winds in [0, 40] m/s.
InTempDomain(T) == ~ Lt(T, Dec(-2, 0)) /\ ~ Gt(T, Dec(45, 0)) /\ ~ IsNaN(T)

InWindDomain(U) == ~ Lt(U, Dec(0, 0)) /\ ~ Gt(U, Dec(40, 0)) /\ ~ IsNaN(U)

C28_SchmidtPositiveKwNonNegative ==
    /\ (fn = "schmidt_number" /\ ret # Pending)
           => /\ (\A i \in DOMAIN args.x.T : InTempDomain(args.x.T[i]))
                     => ret.err = "none"
              /\ ret.err = "none"
                     => \A i \in DOMAIN args.x.T :
                           InTempDomain(args.x.T[i])
                               => Gt(ret.arr[i], Dec(0, 0))
    /\ (fn = "kw" /\ ret # Pending)
           => /\ (\A i \in DOMAIN args.x.T :
                     InTempDomain(args.x.T[i]) /\ InWindDomain(args.x.U[i]))
                     => ret.err = "none"
              /\ ret.err = "none"
                     => \A i \in DOMAIN args.x.T :
                           (InTempDomain(args.x.T[i])
                                /\ InWindDomain(args.x.U[i]))
                               => ret.arr[i] \in {"zero", "pos"}

\* both ends of the temperature domain have been evaluated, and a
\* parameterization returned at the strongest wind of its domain on the
\* warmest water
C28_Witness ==
    /\ fn = "kw"
    /\ ret # Pending
    /\ ret.err = "none"
    /\ args.kw_func = "k_Li86"
    /\ Len(args.x.T) = 2
    /\ \A i \in DOMAIN args.x.T :
          Eq(args.x.T[i], Dec(45, 0)) /\ Eq(args.x.U[i], Dec(40, 0))
    /\ \A i \in DOMAIN args.x.T : ret.arr[i] = "pos"

---------------------------------------------------------------------------
(* Claims about asynk and synk                                             *)

\* the threads started by asynk-decorated functions, other than thread c,
\* that have not finished
Unfinished(c) ==
    {t \in AsynkThreads \ {c} : pc[t] \notin {"unstarted", "finished"}}

\* C29: a thread enters the body of a synk-decorated function only when
\* every thread started by an asynk-decorated function has finished.
C29_BodyAfterThreadsFinished ==
    [][\A c \in Threads :
          (pc[c] = "while" /\ pc'[c] = "func")
              => \A t \in AsynkThreads : pc[t] \in {"unstarted", "finished"}]_vars

\* the main thread is in the body after a thread it started, and a thread
\* that this one started while the main thread was waiting, have finished
C29_Witness ==
    /\ fn = "synk"
    /\ args.n = 2
    /\ args.starter[2] = 1
    /\ pc[0] = "func"
    /\ pc[1] = "finished"
    /\ pc[2] = "finished"

\* C30: once every other thread started by asynk-decorated functions has
\* finished, a thread waiting in a call of a synk-decorated function, the
\* main thread or a thread started by asynk, in the end runs the body and
\* returns.
C30_PendingSynkReturns ==
    \A c \in Threads :
        (fn = "synk" /\ pc[c] \in {"while", "sleep"} /\ Unfinished(c) = {})
            ~> (pc[c] \in {"returned", "finished"})

=============================================================================
